---- MODULE Spec2Model ----
(***************************************************************************)
(* CallPulse weekly aggregation and comparison engine.                     *)
(*                                                                         *)
(* The model covers services/reports.ts (generateWeeklyReport) running     *)
(* against the tables of schema.sql, together with the two operations that *)
(* change its source data: the process-call edge function (a call under    *)
(* analysis gets its analysis and coaching items and becomes completed)    *)
(* and the delete-calls edge function (cascading delete of calls).         *)
(*                                                                         *)
(* Numbers with one decimal (averages, overall scores, deltas) are kept in *)
(* tenths: 5.7 is 57.  Dimension scores are the integers 1..10.            *)
(***************************************************************************)
EXTENDS Integers, Sequences, FiniteSets, Bags, TLC

VARIABLES
    calls,            \* table calls: call id -> row
    call_analyses,    \* table call_analyses: rows in table order
    coaching_items,   \* table coaching_items: set of rows
    weekly_reports,   \* table weekly_reports: bag of rows
    runs,             \* invocations of generateWeeklyReport: position and locals
    processing,       \* process-call invocations: call id -> position
    started,          \* number of generateWeeklyReport invocations so far
    deleted,          \* number of delete-calls requests so far
    client,           \* the Reports page: its state, its console, what its reads returned
    requests          \* requests to the edge functions: request id -> position and body

vars == <<calls, call_analyses, coaching_items, weekly_reports, runs, processing,
          started, deleted, client, requests>>

(***************************************************************************)
(* Bounds of the model.                                                    *)
(***************************************************************************)
MaxStarts == 2
MaxDeletes == 1
\* The largest `weeks` asked of getSDRTrend (its default is 8).
MaxWeeks == 3

NULL == "null"
EmptyMap == [k \in {} |-> 0]

(***************************************************************************)
(* types: the six rubric dimensions in canonical order.                    *)
(***************************************************************************)
DIMENSIONS == <<"opening", "discovery", "value_prop", "objection", "closing", "tone">>

DimKeys == {DIMENSIONS[i] : i \in 1..Len(DIMENSIONS)}

DimScores(o, d, v, b, c, t) ==
    [k \in DimKeys |->
        CASE k = "opening" -> o
          [] k = "discovery" -> d
          [] k = "value_prop" -> v
          [] k = "objection" -> b
          [] k = "closing" -> c
          [] k = "tone" -> t]

Overall == "overall"

(***************************************************************************)
(* The data the runs work on.  SDRs, weeks and calls of the model; a call   *)
(* row keeps the columns the engine reads.                                 *)
(***************************************************************************)
Sdrs == {"s1", "s2"}
Periods == {[week |-> 52, year |-> 2024], [week |-> 1, year |-> 2025]}

CallRow(c, s, w, y, st) ==
    [company_id |-> c, sdr_id |-> s, week_number |-> w, year |-> y, status |-> st]

\* Calls present at the start: s1 has a call in week 52 of 2024 and, in
\* week 1 of 2025, a completed call, a call still under analysis, a failed
\* call and a call uploaded under another company; s2 has one completed call.
SeedCalls ==
    "k1" :> CallRow("c1", "s1", 52, 2024, "completed") @@
    "k2" :> CallRow("c1", "s1", 1, 2025, "completed") @@
    "k3" :> CallRow("c1", "s1", 1, 2025, "analyzing") @@
    "k4" :> CallRow("c1", "s2", 1, 2025, "completed") @@
    "k5" :> CallRow("c2", "s1", 1, 2025, "completed") @@
    "k6" :> CallRow("c1", "s1", 1, 2025, "failed")

CallIds == DOMAIN SeedCalls

\* What the LLM returned for a call: six scores and its own overall_score.
LlmResult(sc, ov) == [dimensions |-> sc, overall_score |-> ov]

ResultA == LlmResult(DimScores(3, 5, 9, 6, 7, 4), 58)
ResultB == LlmResult(DimScores(5, 5, 7, 8, 6, 4), 58)
ResultC == LlmResult(DimScores(4, 6, 8, 6, 9, 7), 62)
ResultD == LlmResult(DimScores(6, 6, 6, 7, 5, 8), 64)

\* call_analyses row as inserted by process-call.
AnalysisRow(id, res) ==
    [call_id |-> id, overall_score |-> res.overall_score, scores |-> res.dimensions]

\* coaching_items rows as inserted by process-call: one per dimension of the
\* LLM result.
CoachingRows(id, s, c, res, st) ==
    {[call_id |-> id, sdr_id |-> s, company_id |-> c, dimension |-> d, status |-> st] :
        d \in DOMAIN res.dimensions}

(***************************************************************************)
(* generateWeeklyReport: the computations between its store calls.         *)
(***************************************************************************)
\* Number(a[key]): the score, and 0 for a column that is null.
NumberOf(scores, dim) == IF dim \in DOMAIN scores THEN scores[dim] ELSE 0

RECURSIVE SumScores(_, _, _)
\* scores.reduce((a, b) => a + b, 0) over analyses.map(a => Number(a[key]))
SumScores(analyses, dim, i) ==
    IF i > Len(analyses) THEN 0
    ELSE NumberOf(analyses[i].scores, dim) + SumScores(analyses, dim, i + 1)

\* The mean rounded with halves going down.
RoundedMeanHalfDown(sum, n) == (20 * sum + n - 1) \div (2 * n)

\* Math.round((sum / n) * 10) / 10, in tenths.  Math.round rounds half up.
\* For integer sums and the set sizes of this model the double-precision
\* value of (sum / n) * 10 is on the same side of every half as the exact
\* quotient, so the exact rule is what the code computes.
RoundedMean(sum, n) == (20 * sum + n) \div (2 * n)

\* Lines 210-214: the six per-dimension averages.
DimensionAverages(analyses) ==
    [d \in DimKeys |-> RoundedMean(SumScores(analyses, d, 1), Len(analyses))]

RECURSIVE SumValues(_, _)
\* Object.values(avgScores).reduce((a, b) => a + b, 0)
SumValues(avg, keys) ==
    IF keys = {} THEN 0
    ELSE LET k == CHOOSE x \in keys : TRUE
         IN avg[k] + SumValues(avg, keys \ {k})

\* Six-tuples of averages, in canonical order, whose exact mean lies on a
\* half (x.x5) and for which the double-precision evaluation of
\* (sum / 6) * 10 falls just below it (58.499999999999986 for 5.85), so that
\* Math.round goes down.  Tabulated for the averages this model can produce:
\* of the 16 tuples on a half these four go down, the others up.
BinaryTieDown ==
    {<<67, 67, 53, 57, 57, 50>>, <<53, 53, 43, 45, 45, 40>>,
     <<48, 53, 40, 48, 50, 40>>, <<73, 75, 38, 60, 55, 38>>}

\* Lines 227-229: overall from the values already in avgScores (the six
\* dimension averages; overall itself is assigned after the sum is taken).
OverallOf(avg) ==
    LET total == SumValues(avg, DOMAIN avg)
        count == Cardinality(DOMAIN avg)
    IN IF [i \in 1..Len(DIMENSIONS) |-> avg[DIMENSIONS[i]]] \in BinaryTieDown
       THEN (2 * total + count) \div (2 * count) - 1
       ELSE (2 * total + count) \div (2 * count)

RECURSIVE SumOverall(_, _)
SumOverall(analyses, i) ==
    IF i > Len(analyses) THEN 0
    ELSE analyses[i].overall_score + SumOverall(analyses, i + 1)

\* The naive rollup: overall as the rounded mean of the calls' overall_score.
avgScoresNaive(analyses) ==
    LET avg == DimensionAverages(analyses)
    IN [k \in DimKeys \cup {Overall} |->
            IF k = Overall
            THEN (2 * SumOverall(analyses, 1) + Len(analyses)) \div (2 * Len(analyses))
            ELSE avg[k]]

\* The rollup that also keeps the number of analyses among the averages.
avgScoresWithCount(analyses) ==
    LET avg == DimensionAverages(analyses)
    IN [k \in DimKeys \cup {Overall, "count"} |->
            IF k = Overall THEN OverallOf(avg)
            ELSE IF k = "count" THEN Len(analyses) ELSE avg[k]]

\* Lines 204-229: avgScores gets the six dimension keys in the loop over
\* DIMENSIONS and overall after it.
avgScoresOf(analyses) ==
    LET avg == DimensionAverages(analyses)
    IN [k \in DimKeys \cup {Overall} |-> IF k = Overall THEN OverallOf(avg) ELSE avg[k]]

RECURSIVE BestWorst(_, _, _)
\* Lines 205-208 and 216-225: one pass over the analyses in query order with
\* strict comparisons; acc holds bestCallId, bestScore, worstCallId, worstScore.
BestWorst(analyses, i, acc) ==
    IF i > Len(analyses) THEN acc
    ELSE LET a == analyses[i]
             b == IF a.overall_score > acc.bestScore
                  THEN [acc EXCEPT !.bestScore = a.overall_score, !.bestCallId = a.call_id]
                  ELSE acc
             w == IF a.overall_score < b.worstScore
                  THEN [b EXCEPT !.worstScore = a.overall_score, !.worstCallId = a.call_id]
                  ELSE b
         IN BestWorst(analyses, i + 1, w)

BestWorstOf(analyses) ==
    BestWorst(analyses, 1,
              [bestCallId |-> "", worstCallId |-> "", bestScore |-> 0, worstScore |-> 110])

\* The lookup that takes the week of the run itself.
prevWeekSame(params) ==
    [week |-> params.weekNumber, year |-> params.year]

\* The predecessor computed without the year rollover.
prevWeekNoRollover(params) ==
    [week |-> params.weekNumber - 1, year |-> params.year]

\* Lines 232-234.
prevWeek(params) ==
    IF params.weekNumber = 1
    THEN [week |-> 52, year |-> params.year - 1]
    ELSE [week |-> params.weekNumber - 1, year |-> params.year]

\* Math.round((a - b) * 10) / 10 for two one-decimal numbers, in tenths: the
\* rounding removes the binary representation error of the difference.
RoundedDelta(a, b) == a - b

\* The comparison with the subtraction the wrong way round.
comparisonReversed(avgScores, prevReport) ==
    IF prevReport = <<>> THEN EmptyMap
    ELSE LET prevScores == prevReport[1].avg_scores
         IN [key \in {k \in DOMAIN avgScores : k \in DOMAIN prevScores} |->
                RoundedDelta(prevScores[key], avgScores[key])]

\* Lines 244-252.  prevReport is the result of .single(): <<>> or one row.
comparisonOf(avgScores, prevReport) ==
    IF prevReport = <<>> THEN EmptyMap
    ELSE LET prevScores == prevReport[1].avg_scores
         IN [key \in {k \in DOMAIN avgScores : k \in DOMAIN prevScores} |->
                RoundedDelta(avgScores[key], prevScores[key])]

\* The impact with the non-strict threshold.
coachingImpactNonStrict(prevCoaching, comparison) ==
    LET coachedDimensions == {c.dimension : c \in prevCoaching}
    IN [dim \in {d \in coachedDimensions : d \in DOMAIN comparison} |->
            [coached |-> TRUE, delta |-> comparison[dim], improved |-> comparison[dim] >= 0]]

\* The impact with an entry for every coached dimension, compared or not.
coachingImpactOfEveryCoached(prevCoaching, comparison) ==
    LET coachedDimensions == {c.dimension : c \in prevCoaching}
    IN [dim \in coachedDimensions |->
            IF dim \in DOMAIN comparison
            THEN [coached |-> TRUE, delta |-> comparison[dim], improved |-> comparison[dim] > 0]
            ELSE [coached |-> TRUE, delta |-> 0, improved |-> FALSE]]

\* Lines 261-274.
coachingImpactOf(prevCoaching, comparison) ==
    LET coachedDimensions == {c.dimension : c \in prevCoaching}
    IN [dim \in {d \in coachedDimensions : d \in DOMAIN comparison} |->
            [coached |-> TRUE, delta |-> comparison[dim], improved |-> comparison[dim] > 0]]

RECURSIVE FirstBest(_, _, _, _)
\* entries.filter(k !== 'overall').sort(cmp)[0] with a stable sort: the first
\* dimension in canonical order that no other dimension beats.  sign is 1
\* for the descending sort (b - a) and -1 for the ascending one (a - b).
FirstBest(avg, i, best, sign) ==
    IF i > Len(DIMENSIONS) THEN best
    ELSE FirstBest(avg, i + 1,
                   IF sign * avg[DIMENSIONS[i]] > sign * avg[best] THEN DIMENSIONS[i] ELSE best,
                   sign)

\* The strongest dimension taken as the last of those that tie.
topDimLastOfTies(avgScores) ==
    LET best == FirstBest(avgScores, 2, DIMENSIONS[1], 1)
        ties == {i \in 1..Len(DIMENSIONS) : avgScores[DIMENSIONS[i]] = avgScores[best]}
    IN DIMENSIONS[CHOOSE i \in ties : \A j \in ties : j <= i]

topDim(avgScores) == FirstBest(avgScores, 2, DIMENSIONS[1], 1)

bottomDim(avgScores) == FirstBest(avgScores, 2, DIMENSIONS[1], -1)

Abs(x) == IF x < 0 THEN -x ELSE x

\* The summary whose arrow has no flat case.
summaryOfNoFlat(analyses, avgScores, comparison) ==
    [calls |-> Len(analyses),
     overall |-> avgScores[Overall],
     strongest |-> topDim(avgScores),
     strongestScore |-> avgScores[topDim(avgScores)],
     needsWork |-> bottomDim(avgScores),
     needsWorkScore |-> avgScores[bottomDim(avgScores)],
     compared |-> DOMAIN comparison # {},
     arrow |-> IF DOMAIN comparison = {} THEN "none"
               ELSE IF Overall \in DOMAIN comparison /\ comparison[Overall] > 0 THEN "up"
               ELSE "down",
     points |-> IF DOMAIN comparison = {} THEN 0
                ELSE IF Overall \in DOMAIN comparison THEN Abs(comparison[Overall])
                ELSE 0]

\* Lines 287-291: the text, kept as the values the template interpolates.
summaryOf(analyses, avgScores, comparison) ==
    [calls |-> Len(analyses),
     overall |-> avgScores[Overall],
     strongest |-> topDim(avgScores),
     strongestScore |-> avgScores[topDim(avgScores)],
     needsWork |-> bottomDim(avgScores),
     needsWorkScore |-> avgScores[bottomDim(avgScores)],
     compared |-> DOMAIN comparison # {},
     arrow |-> IF DOMAIN comparison = {} THEN "none"
               ELSE IF Overall \in DOMAIN comparison /\ comparison[Overall] > 0 THEN "up"
               ELSE IF Overall \in DOMAIN comparison /\ comparison[Overall] < 0 THEN "down"
               ELSE "flat",
     points |-> IF DOMAIN comparison = {} THEN 0
                ELSE IF Overall \in DOMAIN comparison THEN Abs(comparison[Overall])
                ELSE 0]

(***************************************************************************)
(* The store as generateWeeklyReport uses it.                              *)
(***************************************************************************)
\* The calls query without the status filter.
CallIdsOfAnyStatus(params) ==
    {id \in DOMAIN calls :
        /\ calls[id].company_id = params.companyId
        /\ calls[id].sdr_id = params.sdrId
        /\ calls[id].week_number = params.weekNumber
        /\ calls[id].year = params.year}

\* Lines 177-184: ids of the completed calls of (company, sdr, week, year).
CompletedCallIds(params) ==
    {id \in DOMAIN calls :
        /\ calls[id].company_id = params.companyId
        /\ calls[id].sdr_id = params.sdrId
        /\ calls[id].week_number = params.weekNumber
        /\ calls[id].year = params.year
        /\ calls[id].status = "completed"}

\* Lines 192-196: the analyses of those calls, in table order.
AnalysesOf(callIds) == SelectSeq(call_analyses, LAMBDA a : a.call_id \in callIds)

SameKey(row, s, w, y) == row.sdr_id = s /\ row.week_number = w /\ row.year = y

\* The lookup without the sdr_id filter.
SingleReportAnySdr(s, w, y) ==
    LET found == {row \in BagToSet(weekly_reports) : row.week_number = w /\ row.year = y}
    IN IF Cardinality(found) = 1 /\ CopiesIn(CHOOSE row \in found : TRUE, weekly_reports) = 1
       THEN <<[avg_scores |-> (CHOOSE row \in found : TRUE).avg_scores]>>
       ELSE <<>>

\* Lines 236-242: .single() gives the row when exactly one matches.
SingleReport(s, w, y) ==
    LET found == {row \in BagToSet(weekly_reports) : SameKey(row, s, w, y)}
    IN IF Cardinality(found) = 1 /\ CopiesIn(CHOOSE row \in found : TRUE, weekly_reports) = 1
       THEN <<[avg_scores |-> (CHOOSE row \in found : TRUE).avg_scores]>>
       ELSE <<>>

\* The ledger query without the company filter.
CoachingOfAnyCompany(params) ==
    {[dimension |-> c.dimension, status |-> c.status] :
        c \in {x \in coaching_items : x.sdr_id = params.sdrId}}

\* Lines 255-259: every coaching item of the SDR in the company.
CoachingOf(params) ==
    {[dimension |-> c.dimension, status |-> c.status] :
        c \in {x \in coaching_items :
                  x.sdr_id = params.sdrId /\ x.company_id = params.companyId}}

\* Lines 297-309: the row handed to upsert.
ReportRow(run) ==
    [company_id |-> run.params.companyId,
     sdr_id |-> run.params.sdrId,
     week_number |-> run.params.weekNumber,
     year |-> run.params.year,
     calls_analyzed |-> Len(run.analyses),
     avg_scores |-> run.avgScores,
     best_call_id |-> IF run.bestCallId = "" THEN NULL ELSE run.bestCallId,
     worst_call_id |-> IF run.worstCallId = "" THEN NULL ELSE run.worstCallId,
     summary |-> run.summary,
     comparison_with_previous |-> run.comparison,
     coaching_impact |-> run.coachingImpact]

\* The locals of a run of generateWeeklyReport that got these answers from
\* the store, at the point of its upsert.
RunLocals(params, analyses, prevReport, prevCoaching) ==
    LET avgScores == avgScoresOf(analyses)
        comparison == comparisonOf(avgScores, prevReport)
    IN [pc |-> "upsert", seq |-> 0, after |-> {}, faults |-> {}, params |-> params,
        callIds |-> {analyses[i].call_id : i \in 1..Len(analyses)},
        analyses |-> analyses, avgScores |-> avgScores,
        bestCallId |-> BestWorstOf(analyses).bestCallId,
        worstCallId |-> BestWorstOf(analyses).worstCallId,
        prevWeek |-> prevWeek(params), prevReport |-> prevReport,
        comparison |-> comparison, prevCoaching |-> prevCoaching,
        coachingImpact |-> coachingImpactOf(prevCoaching, comparison),
        summary |-> summaryOf(analyses, avgScores, comparison)]

\* The rows with a key, and the rows with any other key, with their
\* multiplicities.
AtKey(reports, s, w, y) ==
    [row \in {x \in DOMAIN reports : SameKey(x, s, w, y)} |-> reports[row]]

OffKey(reports, s, w, y) ==
    [row \in {x \in DOMAIN reports : ~SameKey(x, s, w, y)} |-> reports[row]]

\* A plain insert, with no conflict target and no unique key.
InsertRow(reports, row) == reports (+) SetToBag({row})

\* The upsert that keeps the existing row on a conflict (ignoreDuplicates).
UpsertIgnoreDuplicates(reports, row) ==
    IF \E x \in DOMAIN reports : SameKey(x, row.sdr_id, row.week_number, row.year)
    THEN reports
    ELSE reports (+) SetToBag({row})

\* The upsert that on a conflict merges the new row's mappings into those
\* of the existing row, keeping the old entries the new row has not.
UpsertMerging(reports, row) ==
    LET old == {x \in DOMAIN reports : SameKey(x, row.sdr_id, row.week_number, row.year)}
        was == CHOOSE x \in old : TRUE
        merged == [row EXCEPT
                     !.comparison_with_previous = @ @@ was.comparison_with_previous,
                     !.coaching_impact = @ @@ was.coaching_impact]
    IN [x \in DOMAIN reports \ old |-> reports[x]]
          (+) SetToBag({IF old = {} THEN row ELSE merged})

\* Lines 294-313 with unique(sdr_id, week_number, year): insert, or on a
\* conflict on the key replace the columns of the existing row.
Upsert(reports, row) ==
    OffKey(reports, row.sdr_id, row.week_number, row.year) (+) SetToBag({row})

(***************************************************************************)
(* generateWeeklyReport, one action per store round trip.                  *)
(***************************************************************************)
RunOrder == <<"r1", "r2">>

Runs == {RunOrder[i] : i \in 1..Len(RunOrder)}

NoParams == [companyId |-> "", sdrId |-> "", weekNumber |-> 0, year |-> 0]

\* Besides the locals of the function a run carries the ordinal of its
\* invocation (seq) and the invocations that had returned when it was
\* made (after), which serve to say "in a row", and the store operations
\* that answered it with an error (faults); the code has none of the three.
IdleRun ==
    [pc |-> "idle", seq |-> 0, after |-> {}, faults |-> {},
     params |-> NoParams, callIds |-> {}, analyses |-> <<>>,
     avgScores |-> EmptyMap, bestCallId |-> "", worstCallId |-> "",
     prevWeek |-> [week |-> 0, year |-> 0], prevReport |-> <<>>,
     comparison |-> EmptyMap, prevCoaching |-> {}, coachingImpact |-> EmptyMap,
     summary |-> summaryOf(<<>>, [k \in DimKeys \cup {Overall} |-> 0], EmptyMap)]

\* The caller passes its own company; the SDR and the week are chosen in the UI.
ParamsSet ==
    {[companyId |-> "c1", sdrId |-> s, weekNumber |-> p.week, year |-> p.year] :
        s \in Sdrs, p \in Periods}

\* Unused slots are interchangeable: a first use takes them in order.
NextSlot(r) ==
    runs[r].pc = "idle" =>
        \A i \in 1..Len(RunOrder) :
            (RunOrder[i] = r) => \A j \in 1..(i - 1) : runs[RunOrder[j]].pc # "idle"

\* A call of generateWeeklyReport(p), whoever makes it.
Invoke(r, p) ==
    /\ runs[r].pc \in {"idle", "done", "failed", "error"}
    /\ NextSlot(r)
    /\ started < MaxStarts
    /\ runs' = [runs EXCEPT ![r] =
                    [IdleRun EXCEPT !.pc = "calls", !.params = p, !.seq = started + 1,
                                    !.after = {runs[o].seq : o \in {x \in Runs \ {r} :
                                                  runs[x].pc = "done"}}]]
    /\ started' = started + 1
    /\ UNCHANGED <<calls, call_analyses, coaching_items, weekly_reports, processing, deleted,
                   requests>>

Start(r, p) == Invoke(r, p) /\ client' = client

QueryCalls(r) ==
    /\ runs[r].pc = "calls"
    /\ LET callIds == CompletedCallIds(runs[r].params)
       IN runs' = [runs EXCEPT ![r].callIds = callIds,
                               ![r].pc = IF callIds = {} THEN "failed" ELSE "analyses"]
    /\ UNCHANGED <<calls, call_analyses, coaching_items, weekly_reports, processing,
                   started, deleted, client, requests>>

\* The run that does not throw on an empty selection and goes on with a
\* zero-filled rollup.
QueryAnalysesZeroFill(r) ==
    /\ runs[r].pc = "analyses"
    /\ LET analyses == AnalysesOf(runs[r].callIds)
           bw == BestWorstOf(analyses)
       IN runs' = [runs EXCEPT ![r].analyses = analyses,
                               ![r].avgScores = IF Len(analyses) = 0
                                                THEN [k \in DimKeys \cup {Overall} |-> 0]
                                                ELSE avgScoresOf(analyses),
                               ![r].bestCallId = bw.bestCallId,
                               ![r].worstCallId = bw.worstCallId,
                               ![r].prevWeek = prevWeek(runs[r].params),
                               ![r].pc = "prev"]
    /\ UNCHANGED <<calls, call_analyses, coaching_items, weekly_reports, processing,
                   started, deleted, client, requests>>

QueryAnalyses(r) ==
    /\ runs[r].pc = "analyses"
    /\ LET analyses == AnalysesOf(runs[r].callIds)
           bw == BestWorstOf(analyses)
       IN IF Len(analyses) = 0
          THEN runs' = [runs EXCEPT ![r].pc = "failed"]
          ELSE runs' = [runs EXCEPT ![r].analyses = analyses,
                                    ![r].avgScores = avgScoresOf(analyses),
                                    ![r].bestCallId = bw.bestCallId,
                                    ![r].worstCallId = bw.worstCallId,
                                    ![r].prevWeek = prevWeek(runs[r].params),
                                    ![r].pc = "prev"]
    /\ UNCHANGED <<calls, call_analyses, coaching_items, weekly_reports, processing,
                   started, deleted, client, requests>>

\* The run that compares with the week before as its calls give it now,
\* whether or not a report of that week is stored.
QueryPrevReportRecomputed(r) ==
    /\ runs[r].pc = "prev"
    /\ LET before == [runs[r].params EXCEPT !.weekNumber = runs[r].prevWeek.week,
                                            !.year = runs[r].prevWeek.year]
           analyses == AnalysesOf(CompletedCallIds(before))
           prevReport == IF Len(analyses) = 0 THEN <<>>
                         ELSE <<[avg_scores |-> avgScoresOf(analyses)]>>
       IN runs' = [runs EXCEPT ![r].prevReport = prevReport,
                               ![r].comparison = comparisonOf(runs[r].avgScores, prevReport),
                               ![r].pc = "coaching"]
    /\ UNCHANGED <<calls, call_analyses, coaching_items, weekly_reports, processing,
                   started, deleted, client, requests>>

QueryPrevReport(r) ==
    /\ runs[r].pc = "prev"
    /\ LET prevReport == SingleReport(runs[r].params.sdrId, runs[r].prevWeek.week,
                                      runs[r].prevWeek.year)
       IN runs' = [runs EXCEPT ![r].prevReport = prevReport,
                               ![r].comparison = comparisonOf(runs[r].avgScores, prevReport),
                               ![r].pc = "coaching"]
    /\ UNCHANGED <<calls, call_analyses, coaching_items, weekly_reports, processing,
                   started, deleted, client, requests>>

\* The run that marks the coaching items it has read as completed.
QueryCoachingMarking(r) ==
    /\ runs[r].pc = "coaching"
    /\ LET prevCoaching == CoachingOf(runs[r].params)
       IN runs' = [runs EXCEPT
                     ![r].prevCoaching = prevCoaching,
                     ![r].coachingImpact = coachingImpactOf(prevCoaching, runs[r].comparison),
                     ![r].summary = summaryOf(runs[r].analyses, runs[r].avgScores,
                                              runs[r].comparison),
                     ![r].pc = "upsert"]
    /\ coaching_items' =
          {IF c.sdr_id = runs[r].params.sdrId /\ c.company_id = runs[r].params.companyId
           THEN [c EXCEPT !.status = "completed"] ELSE c : c \in coaching_items}
    /\ UNCHANGED <<calls, call_analyses, weekly_reports, processing, started, deleted, client,
                   requests>>

QueryCoaching(r) ==
    /\ runs[r].pc = "coaching"
    /\ LET prevCoaching == CoachingOf(runs[r].params)
       IN runs' = [runs EXCEPT
                     ![r].prevCoaching = prevCoaching,
                     ![r].coachingImpact = coachingImpactOf(prevCoaching, runs[r].comparison),
                     ![r].summary = summaryOf(runs[r].analyses, runs[r].avgScores,
                                              runs[r].comparison),
                     ![r].pc = "upsert"]
    /\ UNCHANGED <<calls, call_analyses, coaching_items, weekly_reports, processing,
                   started, deleted, client, requests>>

UpsertReport(r) ==
    /\ runs[r].pc = "upsert"
    /\ weekly_reports' = Upsert(weekly_reports, ReportRow(runs[r]))
    /\ runs' = [runs EXCEPT ![r].pc = "done"]
    /\ UNCHANGED <<calls, call_analyses, coaching_items, processing, started, deleted, client,
                   requests>>

(***************************************************************************)
(* generateWeeklyReport when the store answers with an error: { data: null, *)
(* error }.  A run that throws the store's error ends in "error"; one that  *)
(* throws 'No analyzed calls found for this week' ends in "failed".         *)
(***************************************************************************)
\* Line 186: if (callsError) throw callsError.
CallsReadFails(r) ==
    /\ runs[r].pc = "calls"
    /\ runs' = [runs EXCEPT ![r].faults = @ \cup {"calls"}, ![r].pc = "error"]
    /\ UNCHANGED <<calls, call_analyses, coaching_items, weekly_reports, processing,
                   started, deleted, client, requests>>

\* Lines 192-201: the error of the call_analyses read is not looked at;
\* analysesData is null, analyses = [] and the no-data error is thrown.
AnalysesReadFails(r) ==
    /\ runs[r].pc = "analyses"
    /\ runs' = [runs EXCEPT ![r].faults = @ \cup {"call_analyses"}, ![r].pc = "failed"]
    /\ UNCHANGED <<calls, call_analyses, coaching_items, weekly_reports, processing,
                   started, deleted, client, requests>>

\* Lines 236-252: the error of the weekly_reports read is not looked at;
\* prevReport is null and the comparison stays {}.
PrevReportReadFails(r) ==
    /\ runs[r].pc = "prev"
    /\ runs' = [runs EXCEPT ![r].faults = @ \cup {"weekly_reports"},
                            ![r].prevReport = <<>>,
                            ![r].comparison = comparisonOf(runs[r].avgScores, <<>>),
                            ![r].pc = "coaching"]
    /\ UNCHANGED <<calls, call_analyses, coaching_items, weekly_reports, processing,
                   started, deleted, client, requests>>

\* Lines 255-274: the error of the coaching_items read is not looked at;
\* prevCoaching is null and coachingImpact stays {}.
CoachingReadFails(r) ==
    /\ runs[r].pc = "coaching"
    /\ runs' = [runs EXCEPT
                  ![r].faults = @ \cup {"coaching_items"},
                  ![r].prevCoaching = {},
                  ![r].coachingImpact = EmptyMap,
                  ![r].summary = summaryOf(runs[r].analyses, runs[r].avgScores,
                                           runs[r].comparison),
                  ![r].pc = "upsert"]
    /\ UNCHANGED <<calls, call_analyses, coaching_items, weekly_reports, processing,
                   started, deleted, client, requests>>

\* Line 315: if (reportError) throw reportError; nothing was written.
UpsertFails(r) ==
    /\ runs[r].pc = "upsert"
    /\ runs' = [runs EXCEPT ![r].faults = @ \cup {"upsert"}, ![r].pc = "error"]
    /\ UNCHANGED <<calls, call_analyses, coaching_items, weekly_reports, processing,
                   started, deleted, client, requests>>

(***************************************************************************)
(* process-call, from the LLM answer on: save the analysis, create the     *)
(* coaching items, mark the call completed.                                *)
(***************************************************************************)
\* The LLM answer of the invocation in flight for a call.
PendingResult(id) == ResultC

\* Lines 256-289: insert into call_analyses; a failed insert (the call row
\* is gone, or the call already has an analysis) is thrown and the catch
\* block marks the call failed.
SaveAnalysis(id) ==
    /\ processing[id] = "analysis"
    /\ IF id \in DOMAIN calls /\ \A i \in 1..Len(call_analyses) : call_analyses[i].call_id # id
       THEN /\ call_analyses' = Append(call_analyses, AnalysisRow(id, PendingResult(id)))
            /\ processing' = [processing EXCEPT ![id] = "coaching"]
            /\ calls' = calls
       ELSE /\ call_analyses' = call_analyses
            /\ processing' = [processing EXCEPT ![id] = "returned"]
            /\ calls' = [c \in DOMAIN calls |->
                            IF c = id THEN [calls[c] EXCEPT !.status = "failed"] ELSE calls[c]]
    /\ UNCHANGED <<coaching_items, weekly_reports, runs, started, deleted, client, requests>>

\* Lines 291-301: one coaching item per dimension; the rows hang on the
\* analysis, so nothing is inserted once the analysis is gone.
CreateCoachingItems(id) ==
    /\ processing[id] = "coaching"
    /\ coaching_items' =
          IF \E i \in 1..Len(call_analyses) : call_analyses[i].call_id = id
          THEN coaching_items \cup
                   CoachingRows(id, SeedCalls[id].sdr_id, SeedCalls[id].company_id,
                                PendingResult(id), "open")
          ELSE coaching_items
    /\ processing' = [processing EXCEPT ![id] = "status"]
    /\ UNCHANGED <<calls, call_analyses, weekly_reports, runs, started, deleted, client, requests>>

\* Lines 303-323: update calls set status = 'completed' where id = callId.
MarkCompleted(id) ==
    /\ processing[id] = "status"
    /\ calls' = [c \in DOMAIN calls |->
                    IF c = id THEN [calls[c] EXCEPT !.status = "completed"] ELSE calls[c]]
    /\ processing' = [processing EXCEPT ![id] = "returned"]
    /\ UNCHANGED <<call_analyses, coaching_items, weekly_reports, runs, started, deleted, client,
                   requests>>

(***************************************************************************)
(* delete-calls: delete the call rows; analyses and coaching items go with *)
(* them and reports that point at a deleted call get NULL there.           *)
(***************************************************************************)
SetNull(row, ids) ==
    [row EXCEPT !.best_call_id = IF @ \in ids THEN NULL ELSE @,
                !.worst_call_id = IF @ \in ids THEN NULL ELSE @]

deleteCalls(ids) ==
    /\ deleted < MaxDeletes
    /\ ids # {}
    /\ ids \subseteq DOMAIN calls
    /\ calls' = [c \in DOMAIN calls \ ids |-> calls[c]]
    /\ call_analyses' = SelectSeq(call_analyses, LAMBDA a : a.call_id \notin ids)
    /\ coaching_items' = {c \in coaching_items : c.call_id \notin ids}
    /\ weekly_reports' = BagOfAll(LAMBDA row : SetNull(row, ids), weekly_reports)
    /\ deleted' = deleted + 1
    /\ UNCHANGED <<runs, processing, started, client, requests>>

(***************************************************************************)
(* The Reports page: its React state, what it wrote to the console and     *)
(* what its reads returned.  pc is the position of generateAll, i the      *)
(* index of the SDR its loop is at.                                        *)
(***************************************************************************)
ClientOf(sdrs, week, year) ==
    [pc |-> "idle", generating |-> FALSE, sdrs |-> sdrs,
     selectedWeek |-> week, selectedYear |-> year, i |-> 0, run |-> "",
     warnings |-> <<>>, errors |-> <<>>, reports |-> <<>>, trend |-> <<>>]

(***************************************************************************)
(* services/reports.ts: the two reads of stored reports.                   *)
(***************************************************************************)
\* The rows a getWeeklyReports query matches, with their multiplicities:
\* company_id always, each of sdr_id, week_number, year when the parameter
\* is truthy (an absent parameter is "" or 0 here).
MatchingReports(params) ==
    [row \in {x \in DOMAIN weekly_reports :
                 /\ x.company_id = params.companyId
                 /\ params.sdrId # "" => x.sdr_id = params.sdrId
                 /\ params.weekNumber # 0 => x.week_number = params.weekNumber
                 /\ params.year # 0 => x.year = params.year}
        |-> weekly_reports[row]]

\* The rows of an SDR, whatever the company.
ReportsOfSdr(sdrId) ==
    [row \in {x \in DOMAIN weekly_reports : x.sdr_id = sdrId} |-> weekly_reports[row]]

\* The order by week first and year second.
NotAfterByWeek(a, b) ==
    a.week_number > b.week_number \/ (a.week_number = b.week_number /\ a.year >= b.year)

\* order('year', desc) then order('week_number', desc): a may come before b.
NotAfter(a, b) ==
    a.year > b.year \/ (a.year = b.year /\ a.week_number >= b.week_number)

RECURSIVE Ordered(_)
\* The answers the store can give for the rows of a bag in that order; rows
\* equal in year and week come in any order.
Ordered(bag) ==
    IF DOMAIN bag = {} THEN {<<>>}
    ELSE UNION {{<<row>> \o q : q \in Ordered(bag (-) SetToBag({row}))} :
                   row \in {x \in DOMAIN bag : \A y \in DOMAIN bag : NotAfter(x, y)}}

\* Lines 319-339.
getWeeklyReports(params) == Ordered(MatchingReports(params))

Min(a, b) == IF a < b THEN a ELSE b

\* (data || []).reverse()
Reverse(q) == [i \in 1..Len(q) |-> q[Len(q) + 1 - i]]

\* Lines 341-355: the first `weeks` rows of the ordered answer, reversed.
getSDRTrend(sdrId, weeks) ==
    {Reverse(SubSeq(q, 1, Min(weeks, Len(q)))) : q \in Ordered(ReportsOfSdr(sdrId))}

(***************************************************************************)
(* Reports page, generateAll: one generateWeeklyReport after the other for *)
(* the SDRs of the page, each in its own try/catch, then loadData.         *)
(***************************************************************************)
BatchParams(k) ==
    [companyId |-> "c1", sdrId |-> client.sdrs[k],
     weekNumber |-> client.selectedWeek, year |-> client.selectedYear]

\* Lines 38-40; the button is disabled while generating.
GenerateAll ==
    /\ client.pc = "idle"
    /\ ~client.generating
    /\ started + Len(client.sdrs) <= MaxStarts
    /\ client' = [client EXCEPT !.generating = TRUE, !.pc = "loop", !.i = 1]
    /\ UNCHANGED <<calls, call_analyses, coaching_items, weekly_reports, runs, processing,
                   started, deleted, requests>>

\* Lines 42-49: the call for the SDR the loop is at.
BatchCall ==
    /\ client.pc = "loop"
    /\ client.i <= Len(client.sdrs)
    /\ \E r \in Runs :
          /\ Invoke(r, BatchParams(client.i))
          /\ client' = [client EXCEPT !.pc = "await", !.run = r]

\* generateAll without the inner try/catch: the first failure ends the loop
\* in the outer catch.
BatchReturnAbort ==
    /\ client.pc = "await"
    /\ runs[client.run].pc \in {"done", "failed", "error"}
    /\ client' = IF runs[client.run].pc = "done"
                  THEN [client EXCEPT !.pc = "loop", !.i = @ + 1]
                  ELSE [client EXCEPT !.pc = "idle", !.i = Len(client.sdrs) + 1,
                                      !.generating = FALSE,
                                      !.errors = Append(@, "Generation failed")]
    /\ UNCHANGED <<calls, call_analyses, coaching_items, weekly_reports, runs, processing,
                   started, deleted, requests>>

\* Lines 43-52: the call returned, or threw and the catch warned; on to the
\* next SDR either way.
BatchReturn ==
    /\ client.pc = "await"
    /\ runs[client.run].pc \in {"done", "failed", "error"}
    /\ client' = IF runs[client.run].pc = "done"
                  THEN [client EXCEPT !.pc = "loop", !.i = @ + 1]
                  ELSE [client EXCEPT !.pc = "loop", !.i = @ + 1,
                                      !.warnings = Append(@, client.sdrs[client.i])]
    /\ UNCHANGED <<calls, call_analyses, coaching_items, weekly_reports, runs, processing,
                   started, deleted, requests>>

\* Lines 26-36 and 54, 58: loadData after the loop, then setGenerating(false).
LoadData ==
    /\ client.pc = "loop"
    /\ client.i > Len(client.sdrs)
    /\ \E q \in getWeeklyReports([companyId |-> "c1", sdrId |-> "",
                                    weekNumber |-> client.selectedWeek,
                                    year |-> client.selectedYear]) :
          client' = [client EXCEPT !.reports = q, !.generating = FALSE, !.pc = "idle"]
    /\ UNCHANGED <<calls, call_analyses, coaching_items, weekly_reports, runs, processing,
                   started, deleted, requests>>

\* Lines 55-58: getWeeklyReports threw; the outer catch logs, then
\* setGenerating(false).
LoadDataFails ==
    /\ client.pc = "loop"
    /\ client.i > Len(client.sdrs)
    /\ client' = [client EXCEPT !.errors = Append(@, "Generation failed"),
                                !.generating = FALSE, !.pc = "idle"]
    /\ UNCHANGED <<calls, call_analyses, coaching_items, weekly_reports, runs, processing,
                   started, deleted, requests>>

(***************************************************************************)
(* Specification.                                                          *)
(***************************************************************************)
\* Coaching items of s1's seeded analyses: the insert at process-call line
\* 301 is not checked, so an analysis can be without items ("none");
\* otherwise the items have been worked through.
\* No request to an edge function has been made yet.
NoRequests == <<>>

LedgerModes == {"none", "completed"}

SeedCoaching(mode) ==
    (IF mode = "none" THEN {}
     ELSE CoachingRows("k1", "s1", "c1", ResultA, mode) \cup
          CoachingRows("k2", "s1", "c1", ResultB, mode))
    \cup CoachingRows("k4", "s2", "c1", ResultD, "open")
    \cup CoachingRows("k5", "s1", "c2", ResultC, "in_progress")

\* The report of s1 for week 52 of 2024 as a run on the seeded data stores it.
SeedReport(mode) ==
    ReportRow(RunLocals([companyId |-> "c1", sdrId |-> "s1", weekNumber |-> 52, year |-> 2024],
                        <<AnalysisRow("k1", ResultA)>>, <<>>,
                        {[dimension |-> c.dimension, status |-> c.status] :
                            c \in {x \in SeedCoaching(mode) :
                                      x.sdr_id = "s1" /\ x.company_id = "c1"}}))

\* The database after some calls were uploaded and processed and the report
\* of the earlier week was generated.
Init ==
    \E mode \in LedgerModes :
        /\ calls = SeedCalls
        /\ call_analyses = <<AnalysisRow("k1", ResultA), AnalysisRow("k2", ResultB),
                             AnalysisRow("k4", ResultD), AnalysisRow("k5", ResultC)>>
        /\ coaching_items = SeedCoaching(mode)
        /\ weekly_reports = SetToBag({SeedReport(mode)})
        /\ runs = [r \in Runs |-> IdleRun]
        /\ processing = [id \in CallIds |->
                            IF SeedCalls[id].status = "analyzing" THEN "analysis" ELSE "none"]
        /\ started = 0
        /\ deleted = 0
        /\ client = ClientOf(<<"s1", "s2">>, 1, 2025)
        /\ requests = NoRequests

\* The selections sent to delete-calls.
DeleteRequests == {{"k1"}, {"k2"}}

Next ==
    \/ \E r \in Runs, p \in ParamsSet : Start(r, p)
    \/ \E r \in Runs : QueryCalls(r)
    \/ \E r \in Runs : QueryAnalyses(r)
    \/ \E r \in Runs : QueryPrevReport(r)
    \/ \E r \in Runs : QueryCoaching(r)
    \/ \E r \in Runs : UpsertReport(r)
    \/ \E id \in CallIds : SaveAnalysis(id)
    \/ \E id \in CallIds : CreateCoachingItems(id)
    \/ \E id \in CallIds : MarkCompleted(id)
    \/ \E ids \in DeleteRequests : deleteCalls(ids)

Spec == Init /\ [][Next]_vars

\* LLM answers of the calls of one SDR in one week: a weak, a middling and a
\* strong call (opening 3, 5, 9; overall 4.0, 6.0, 8.0), a call whose best
\* and whose worst dimensions are each two, and an answer whose
\* overall_score is 0, which nothing between the LLM and the table rejects.
ResultLow == LlmResult(DimScores(3, 4, 5, 4, 4, 4), 40)
ResultMid == LlmResult(DimScores(5, 6, 6, 6, 7, 6), 60)
ResultHigh == LlmResult(DimScores(9, 8, 8, 7, 8, 8), 80)
ResultTied == LlmResult(DimScores(8, 8, 3, 6, 5, 3), 55)
ResultZero == LlmResult(DimScores(1, 1, 1, 1, 1, 1), 0)

InputPool == {ResultLow, ResultMid, ResultHigh, ResultTied, ResultZero}

\* The completed calls of s1 in week 1 of 2025, in the order of their
\* analyses in the table.
InputCallIds == <<"q1", "q2", "q3", "q4">>

InputParams == [companyId |-> "c1", sdrId |-> "s1", weekNumber |-> 1, year |-> 2025]

\* Calls that differ from the requested ones in one column each; all but
\* the two still being uploaded or transcribed have an analysis.
OtherCalls ==
    "x1" :> CallRow("c1", "s1", 1, 2025, "failed") @@
    "x2" :> CallRow("c1", "s2", 1, 2025, "completed") @@
    "x3" :> CallRow("c2", "s1", 1, 2025, "completed") @@
    "x4" :> CallRow("c1", "s1", 52, 2024, "completed") @@
    "x5" :> CallRow("c1", "s1", 1, 2024, "completed") @@
    "x6" :> CallRow("c1", "s1", 1, 2025, "analyzing") @@
    "x7" :> CallRow("c1", "s1", 1, 2025, "uploading") @@
    "x8" :> CallRow("c1", "s1", 1, 2025, "transcribing")

InputCalls(n) ==
    [id \in {InputCallIds[i] : i \in 1..n} |-> CallRow("c1", "s1", 1, 2025, "completed")]
        @@ OtherCalls

\* The table call_analyses: the analyses rs of the first Len(rs) requested
\* calls, among those of the other calls.
InputAnalyses(rs, prior) ==
    <<AnalysisRow("x4", prior), AnalysisRow("x1", ResultHigh), AnalysisRow("x2", ResultZero)>>
        \o [i \in 1..Len(rs) |-> AnalysisRow(InputCallIds[i], rs[i])]
        \o <<AnalysisRow("x3", ResultHigh), AnalysisRow("x5", ResultZero),
              AnalysisRow("x6", ResultHigh)>>

\* The report of week 52 of 2024 as a run on x4's analysis stores it.
InputPrior(prior) ==
    ReportRow(RunLocals([companyId |-> "c1", sdrId |-> "s1", weekNumber |-> 52, year |-> 2024],
                        <<AnalysisRow("x4", prior)>>, <<>>, {}))

\* One to four analysed calls with answers from the pool, and the report of
\* the week before generated or not.
InputInit ==
    \E n \in 1..Len(InputCallIds) :
      \E rs \in [1..n -> InputPool], prior \in InputPool, generated \in BOOLEAN :
        /\ calls = InputCalls(n)
        /\ call_analyses = InputAnalyses(rs, prior)
        /\ coaching_items = {}
        /\ weekly_reports = IF generated THEN SetToBag({InputPrior(prior)}) ELSE EmptyBag
        /\ runs = [r \in Runs |-> IdleRun]
        /\ processing = [id \in CallIds |-> "none"]
        /\ started = 0
        /\ deleted = 0
        /\ client = ClientOf(<<"s1", "s2">>, 1, 2025)
        /\ requests = NoRequests

\* One run after the other for that SDR and week.
InputNext ==
    \/ Start(RunOrder[1], InputParams)
    \/ QueryCalls(RunOrder[1])
    \/ QueryAnalyses(RunOrder[1])
    \/ QueryPrevReport(RunOrder[1])
    \/ QueryCoaching(RunOrder[1])
    \/ UpsertReport(RunOrder[1])

InputSpec == InputInit /\ [][InputNext]_vars

\* A row of call_analyses whose score column of one dimension is null.
WithoutScore(row, d) ==
    [row EXCEPT !.scores = [k \in DOMAIN row.scores \ {d} |-> row.scores[k]]]

\* One or two analysed calls of the requested SDR and week, the analysis of
\* one of them lacking the score of one dimension.  The columns are declared
\* not null: no insert of this program produces such a row.
IntegrityInit ==
    \E n \in 1..2 :
      \E rs \in [1..n -> InputPool], k \in 1..n, d \in DimKeys, generated \in BOOLEAN :
        /\ calls = InputCalls(n)
        /\ call_analyses =
              [i \in 1..Len(InputAnalyses(rs, ResultMid)) |->
                  LET row == InputAnalyses(rs, ResultMid)[i]
                  IN IF row.call_id = InputCallIds[k] THEN WithoutScore(row, d) ELSE row]
        /\ coaching_items = {}
        /\ weekly_reports = IF generated THEN SetToBag({InputPrior(ResultMid)}) ELSE EmptyBag
        /\ runs = [r \in Runs |-> IdleRun]
        /\ processing = [id \in CallIds |-> "none"]
        /\ started = 0
        /\ deleted = 0
        /\ client = ClientOf(<<"s1", "s2">>, 1, 2025)
        /\ requests = NoRequests

IntegritySpec == IntegrityInit /\ [][InputNext]_vars

\* The report of a week as a run on one analysed call stores it.
QueryReport(c, s, w, y, res) ==
    ReportRow(RunLocals([companyId |-> c, sdrId |-> s, weekNumber |-> w, year |-> y],
                        <<AnalysisRow("k1", res)>>, <<>>, {}))

\* Reports that may be stored when the page reads: four consecutive weeks
\* of s1 around the turn of the year, one week of s2, one of an SDR of
\* another company.
QueryPool ==
    {QueryReport("c1", "s1", 51, 2024, ResultA), QueryReport("c1", "s1", 52, 2024, ResultB),
     QueryReport("c1", "s1", 1, 2025, ResultC), QueryReport("c1", "s1", 2, 2025, ResultD),
     QueryReport("c1", "s2", 1, 2025, ResultA), QueryReport("c2", "s3", 1, 2025, ResultB)}

\* The parameters of a getWeeklyReports call; "" and 0 stand for a filter
\* that is not given.
QueryParams ==
    [companyId : {"c1", "c2"}, sdrId : {"", "s1", "s2"}, weekNumber : {0, 1, 52},
     year : {0, 2024, 2025}]

QueryInit ==
    \E stored \in SUBSET QueryPool :
        /\ calls = SeedCalls
        /\ call_analyses = <<>>
        /\ coaching_items = {}
        /\ weekly_reports = SetToBag(stored)
        /\ runs = [r \in Runs |-> IdleRun]
        /\ processing = [id \in CallIds |-> "none"]
        /\ started = 0
        /\ deleted = 0
        /\ client = ClientOf(<<"s1", "s2">>, 1, 2025)
        /\ requests = NoRequests

\* A call of getWeeklyReports whose answer the caller keeps.
GetWeeklyReports(params) ==
    /\ \E q \in getWeeklyReports(params) : client' = [client EXCEPT !.reports = q]
    /\ UNCHANGED <<calls, call_analyses, coaching_items, weekly_reports, runs, processing,
                   started, deleted, requests>>

\* A call of getSDRTrend whose answer the caller keeps.
GetSDRTrend(sdrId, weeks) ==
    /\ \E q \in getSDRTrend(sdrId, weeks) : client' = [client EXCEPT !.trend = q]
    /\ UNCHANGED <<calls, call_analyses, coaching_items, weekly_reports, runs, processing,
                   started, deleted, requests>>

QueryNext ==
    \/ \E params \in QueryParams : GetWeeklyReports(params)
    \/ \E sdrId \in {"s1", "s2", "s3"}, weeks \in 1..MaxWeeks : GetSDRTrend(sdrId, weeks)

QuerySpec == QueryInit /\ [][QueryNext]_vars

\* The store before any report was generated.
OrderInit ==
    \E mode \in LedgerModes :
        /\ calls = SeedCalls
        /\ call_analyses = <<AnalysisRow("k1", ResultA), AnalysisRow("k2", ResultB),
                             AnalysisRow("k4", ResultD), AnalysisRow("k5", ResultC)>>
        /\ coaching_items = SeedCoaching(mode)
        /\ weekly_reports = EmptyBag
        /\ runs = [r \in Runs |-> IdleRun]
        /\ processing = [id \in CallIds |-> "none"]
        /\ started = 0
        /\ deleted = 0
        /\ client = ClientOf(<<"s1", "s2">>, 1, 2025)
        /\ requests = NoRequests

\* Reports generated in any order of weeks, the source data staying as it is.
OrderNext ==
    \/ \E r \in Runs, p \in ParamsSet : Start(r, p)
    \/ \E r \in Runs : QueryCalls(r)
    \/ \E r \in Runs : QueryAnalyses(r)
    \/ \E r \in Runs : QueryPrevReport(r)
    \/ \E r \in Runs : QueryCoaching(r)
    \/ \E r \in Runs : UpsertReport(r)

OrderSpec == OrderInit /\ [][OrderNext]_vars

\* The runs against a store that may answer any operation with an error;
\* the source data stays as it is.
FaultNext ==
    \/ \E r \in Runs, p \in ParamsSet : Start(r, p)
    \/ \E r \in Runs : QueryCalls(r)
    \/ \E r \in Runs : QueryAnalyses(r)
    \/ \E r \in Runs : QueryPrevReport(r)
    \/ \E r \in Runs : QueryCoaching(r)
    \/ \E r \in Runs : UpsertReport(r)
    \/ \E r \in Runs : CallsReadFails(r)
    \/ \E r \in Runs : AnalysesReadFails(r)
    \/ \E r \in Runs : PrevReportReadFails(r)
    \/ \E r \in Runs : CoachingReadFails(r)
    \/ \E r \in Runs : UpsertFails(r)

FaultSpec == Init /\ [][FaultNext]_vars

\* The Reports page with its list of active SDRs in either order and one of
\* the weeks selected.
BatchInit ==
    \E sdrs \in {<<"s1", "s2">>, <<"s2", "s1">>}, p \in Periods :
        /\ calls = SeedCalls
        /\ call_analyses = <<AnalysisRow("k1", ResultA), AnalysisRow("k2", ResultB),
                             AnalysisRow("k4", ResultD), AnalysisRow("k5", ResultC)>>
        /\ coaching_items = SeedCoaching("completed")
        /\ weekly_reports = SetToBag({SeedReport("completed")})
        /\ runs = [r \in Runs |-> IdleRun]
        /\ processing = [id \in CallIds |-> "none"]
        /\ started = 0
        /\ deleted = 0
        /\ client = ClientOf(sdrs, p.week, p.year)
        /\ requests = NoRequests

\* generateAll, the runs it makes, and a store that may answer with an error.
BatchNext ==
    \/ GenerateAll
    \/ BatchCall
    \/ BatchReturn
    \/ LoadData
    \/ LoadDataFails
    \/ \E r \in Runs : QueryCalls(r)
    \/ \E r \in Runs : QueryAnalyses(r)
    \/ \E r \in Runs : QueryPrevReport(r)
    \/ \E r \in Runs : QueryCoaching(r)
    \/ \E r \in Runs : UpsertReport(r)
    \/ \E r \in Runs : CallsReadFails(r)
    \/ \E r \in Runs : AnalysesReadFails(r)
    \/ \E r \in Runs : PrevReportReadFails(r)
    \/ \E r \in Runs : CoachingReadFails(r)
    \/ \E r \in Runs : UpsertFails(r)

\* Every await of the page and of a run is answered, with data or with an
\* error.
BatchSpec == BatchInit /\ [][BatchNext]_vars /\ WF_vars(BatchNext)

(***************************************************************************)
(* Properties.                                                             *)
(***************************************************************************)
\* A run that has its rollup (it is past the read of the analyses).
HasRollup(r) == runs[r].pc \in {"prev", "coaching", "upsert", "done"}

\* A run that has read the prior report and computed the comparison.
HasComparison(r) == runs[r].pc \in {"coaching", "upsert", "done"}

\* A run that has everything it upserts.
HasReport(r) == runs[r].pc \in {"upsert", "done"}

StoredReports == BagToSet(weekly_reports)

SumOfSix(avg) ==
    avg["opening"] + avg["discovery"] + avg["value_prop"] + avg["objection"]
        + avg["closing"] + avg["tone"]

\* v is x rounded to the nearest integer, where x = num / den (den > 0).
IsNearest(v, num, den) == 2 * Abs(den * v - num) <= den

\* C1: the overall of every rollup and of every stored report is the mean of
\* its six dimension averages rounded to one decimal (the tenth nearest to
\* the sixth of their sum).
C1_OverallIsMeanOfAverages ==
    /\ \A r \in Runs : HasRollup(r) =>
          IsNearest(runs[r].avgScores[Overall], SumOfSix(runs[r].avgScores), 6)
    /\ \A row \in StoredReports :
          IsNearest(row.avg_scores[Overall], SumOfSix(row.avg_scores), 6)

\* C1 witness: a stored report written by a finished run whose overall is not
\* the rounded mean of the overall_score of its calls.
C1_Witness ==
    \E r \in Runs :
        /\ runs[r].pc = "done"
        /\ ReportRow(runs[r]) \in StoredReports
        /\ ~IsNearest(runs[r].avgScores[Overall], SumOverall(runs[r].analyses, 1),
                      Len(runs[r].analyses))

\* The completed analyses of (company, sdr, week, year) in the store now.
SelectedNow(params) == AnalysesOf(CompletedCallIds(params))

\* C2: a run whose read finds no completed call, or no analysis for the
\* calls it found, fails at that step; no step of a run other than its final
\* upsert changes the report store, and a run never goes on with an empty
\* set of analyses.
C2_NoDataFails ==
    [][\A r \in Runs :
          /\ (runs[r].pc = "calls" /\ runs'[r] # runs[r]
                /\ CompletedCallIds(runs[r].params) = {})
                => runs'[r].pc = "failed"
          /\ (runs[r].pc = "analyses" /\ runs'[r] # runs[r]
                /\ AnalysesOf(runs[r].callIds) = <<>>)
                => runs'[r].pc = "failed"
          /\ (runs'[r] # runs[r] /\ runs'[r].pc # "done")
                => weekly_reports' = weekly_reports
          /\ runs'[r].pc \in {"prev", "coaching", "upsert", "done"}
                => Len(runs'[r].analyses) > 0 /\ ReportRow(runs'[r]).calls_analyzed > 0
      ]_vars

\* C2 witness: a run has failed for want of data while a report for its key
\* is in the store.
C2_Witness ==
    \E r \in Runs :
        /\ runs[r].pc = "failed"
        /\ SelectedNow(runs[r].params) = <<>>
        /\ \E row \in StoredReports :
              SameKey(row, runs[r].params.sdrId, runs[r].params.weekNumber, runs[r].params.year)

AvgKeys == DimKeys \cup {Overall}

\* The stored reports of an SDR for a week of a year.
ReportsAt(s, w, y) == {row \in StoredReports : SameKey(row, s, w, y)}

\* C3: when a run reads the prior report, its comparison is empty if the
\* store has no report at the key it looks up; otherwise the comparison has
\* exactly the keys of the current averages that the prior averages have,
\* each with current minus prior, which is 0 exactly when the two are equal.
C3_ComparisonIsDelta ==
    [][\A r \in Runs :
          (runs[r].pc = "prev" /\ runs'[r].pc = "coaching") =>
              LET prior == ReportsAt(runs[r].params.sdrId, runs[r].prevWeek.week,
                                     runs[r].prevWeek.year)
                  cur == runs[r].avgScores
                  cmp == runs'[r].comparison
              IN /\ DOMAIN cur = AvgKeys
                 /\ prior = {} => DOMAIN cmp = {}
                 /\ \A row \in prior :
                       /\ DOMAIN cmp = {k \in AvgKeys : k \in DOMAIN row.avg_scores}
                       /\ \A k \in DOMAIN cmp :
                             /\ cmp[k] = cur[k] - row.avg_scores[k]
                             /\ cmp[k] = 0 <=> cur[k] = row.avg_scores[k]
      ]_vars

\* C3 witness: a comparison against a prior report with a zero, a negative
\* and a positive delta.
C3_Witness ==
    \E r \in Runs :
        /\ HasComparison(r)
        /\ runs[r].prevReport # <<>>
        /\ Overall \in DOMAIN runs[r].comparison
        /\ \E k \in DOMAIN runs[r].comparison : runs[r].comparison[k] = 0
        /\ \E k \in DOMAIN runs[r].comparison : runs[r].comparison[k] < 0
        /\ \E k \in DOMAIN runs[r].comparison : runs[r].comparison[k] > 0

\* C4: the key a run looks up for the prior report is (week - 1, year) when
\* week > 1 and (52, year - 1) when week = 1, never week 0 or 53, and what
\* the run gets is the report stored for its SDR at that key, if any.
C4_PriorWeekKey ==
    [][\A r \in Runs :
          (runs[r].pc = "prev" /\ runs'[r].pc = "coaching") =>
              LET w == runs[r].params.weekNumber
                  y == runs[r].params.year
                  pw == IF w > 1 THEN w - 1 ELSE 52
                  py == IF w > 1 THEN y ELSE y - 1
                  prior == ReportsAt(runs[r].params.sdrId, pw, py)
              IN /\ runs[r].prevWeek = [week |-> pw, year |-> py]
                 /\ runs[r].prevWeek.week \notin {0, 53}
                 /\ prior = {} <=> runs'[r].prevReport = <<>>
                 /\ \A row \in prior : runs'[r].prevReport = <<[avg_scores |-> row.avg_scores]>>
      ]_vars

\* C4 witness: a run for week 1 of 2025 has found the report of week 52 of
\* 2024 while a run for a week > 1 has also made its lookup.
C4_Witness ==
    \E a \in Runs, b \in Runs :
        /\ HasComparison(a) /\ runs[a].params.weekNumber = 1
        /\ runs[a].prevReport # <<>>
        /\ runs[a].prevWeek = [week |-> 52, year |-> 2024]
        /\ HasComparison(b) /\ runs[b].params.weekNumber = 52
        /\ runs[b].prevWeek = [week |-> 51, year |-> 2024]

\* The dimensions of the coaching items the SDR has in the company, of any
\* status and any call.
CoachedNow(params) ==
    {c.dimension : c \in {x \in coaching_items :
                             x.sdr_id = params.sdrId /\ x.company_id = params.companyId}}

\* C5: when a run reads the coaching ledger, its coaching_impact has an entry
\* for d exactly when the SDR has a coaching item for d in the company and
\* the comparison has an entry for d.
C5_ImpactOnlyForCoached ==
    [][\A r \in Runs :
          (runs[r].pc = "coaching" /\ runs'[r].pc = "upsert") =>
              DOMAIN runs'[r].coachingImpact =
                  CoachedNow(runs[r].params) \cap DOMAIN runs[r].comparison
      ]_vars

\* C5 witness: a report with an improved dimension and no coaching impact,
\* the SDR having no coaching item in the company, and a report of the same
\* week with an impact entry for each coached dimension but none for overall.
C5_Witness ==
    \E a \in Runs, b \in Runs :
        /\ HasReport(a)
        /\ \E d \in DimKeys : d \in DOMAIN runs[a].comparison /\ runs[a].comparison[d] > 0
        /\ runs[a].prevCoaching = {}
        /\ DOMAIN runs[a].coachingImpact = {}
        /\ HasReport(b)
        /\ DOMAIN runs[b].coachingImpact = DimKeys
        /\ Overall \in DOMAIN runs[b].comparison

\* C6: every coaching_impact entry, of a run and of a stored report, has
\* coached = true, the delta of the comparison for its dimension and
\* improved = true exactly when that delta is above 0.
C6_ImprovedIsStrict ==
    /\ \A r \in Runs : HasReport(r) =>
          \A d \in DOMAIN runs[r].coachingImpact :
              /\ runs[r].coachingImpact[d].coached = TRUE
              /\ d \in DOMAIN runs[r].comparison
              /\ runs[r].coachingImpact[d].delta = runs[r].comparison[d]
              /\ runs[r].coachingImpact[d].improved <=> runs[r].comparison[d] > 0
    /\ \A row \in StoredReports :
          \A d \in DOMAIN row.coaching_impact :
              /\ row.coaching_impact[d].coached = TRUE
              /\ d \in DOMAIN row.comparison_with_previous
              /\ row.coaching_impact[d].delta = row.comparison_with_previous[d]
              /\ row.coaching_impact[d].improved <=> row.comparison_with_previous[d] > 0

\* C6 witness: a stored report with an entry of delta 0, one of negative
\* delta on closing, both not improved, and one of positive delta, improved.
C6_Witness ==
    \E row \in StoredReports :
        /\ \E d \in DOMAIN row.coaching_impact :
              row.coaching_impact[d].delta = 0 /\ ~row.coaching_impact[d].improved
        /\ "closing" \in DOMAIN row.coaching_impact
        /\ row.coaching_impact["closing"].delta < 0
        /\ ~row.coaching_impact["closing"].improved
        /\ \E d \in DOMAIN row.coaching_impact :
              row.coaching_impact[d].delta > 0 /\ row.coaching_impact[d].improved

RunKey(r) == <<runs[r].params.sdrId, runs[r].params.weekNumber, runs[r].params.year>>

\* The report stored for the SDR of params in the week before params' week,
\* as .single() returns it.
PriorNow(params) ==
    LET pw == IF params.weekNumber > 1 THEN params.weekNumber - 1 ELSE 52
        py == IF params.weekNumber > 1 THEN params.year ELSE params.year - 1
        prior == ReportsAt(params.sdrId, pw, py)
    IN IF prior = {} THEN <<>>
       ELSE <<[avg_scores |-> (CHOOSE row \in prior : TRUE).avg_scores]>>

\* C7: when a run has stored its report and a second run for the same key,
\* invoked after the first returned and having read the same analyses and
\* coaching items, upserts while the prior-week report is still the one the
\* first run read, the upsert leaves the report store exactly as the first
\* run left it.
C7_Idempotent ==
    [][\A a \in Runs, b \in Runs :
          (/\ a # b
           /\ runs[a].pc = "done"
           /\ runs[a].seq \in runs[b].after
           /\ ReportRow(runs[a]) \in StoredReports
           /\ runs[b].pc = "upsert" /\ runs'[b].pc = "done"
           /\ runs[b].params = runs[a].params
           /\ runs[b].analyses = runs[a].analyses
           /\ runs[b].prevCoaching = runs[a].prevCoaching
           /\ PriorNow(runs[a].params) = runs[a].prevReport)
          => weekly_reports' = weekly_reports
      ]_vars

\* C7 witness: two finished runs for the same key with the same analyses and
\* coaching items and a non-empty comparison, the store holding their report
\* once.
C7_Witness ==
    \E a \in Runs, b \in Runs :
        /\ a # b
        /\ runs[a].pc = "done" /\ runs[b].pc = "done"
        /\ runs[a].seq \in runs[b].after
        /\ runs[b].params = runs[a].params
        /\ runs[b].analyses = runs[a].analyses
        /\ runs[b].prevCoaching = runs[a].prevCoaching
        /\ DOMAIN runs[a].comparison = AvgKeys
        /\ DOMAIN runs[a].coachingImpact = DimKeys
        /\ ReportRow(runs[a]) = ReportRow(runs[b])
        /\ CopiesIn(ReportRow(runs[a]), weekly_reports) = 1
        /\ BagCardinality(weekly_reports) = 2

\* The number of stored reports with a key.
CountAt(reports, s, w, y) ==
    BagCardinality(AtKey(reports, s, w, y))

C10_RunsIndependent ==
    [][\A r \in Runs :
          LET p == runs[r].params
              own == {row \in StoredReports : row.sdr_id = p.sdrId}
              prior == {row \in own : row.week_number = runs[r].prevWeek.week
                                        /\ row.year = runs[r].prevWeek.year}
          IN /\ runs'[r] # runs[r] => \A o \in Runs \ {r} : runs'[o] = runs[o]
             /\ (runs[r].pc = "calls" /\ runs'[r].pc # "calls") =>
                   \A id \in runs'[r].callIds : calls[id].sdr_id = p.sdrId
             /\ (runs[r].pc = "prev" /\ runs'[r].pc = "coaching") =>
                   runs'[r].prevReport =
                       IF prior = {} THEN <<>>
                       ELSE <<[avg_scores |-> (CHOOSE row \in prior : TRUE).avg_scores]>>
             /\ (runs[r].pc = "coaching" /\ runs'[r].pc = "upsert") =>
                   runs'[r].prevCoaching =
                       {[dimension |-> c.dimension, status |-> c.status] :
                           c \in {x \in coaching_items :
                                     x.sdr_id = p.sdrId /\ x.company_id = p.companyId}}
             /\ (runs[r].pc = "upsert" /\ runs'[r].pc = "done") =>
                   /\ ReportRow(RunLocals(p, runs[r].analyses, runs[r].prevReport,
                                          runs[r].prevCoaching)) \in BagToSet(weekly_reports')
                   /\ \A row \in StoredReports \cup BagToSet(weekly_reports') :
                         ~SameKey(row, p.sdrId, p.weekNumber, p.year) =>
                             CopiesIn(row, weekly_reports') = CopiesIn(row, weekly_reports)
      ]_vars

\* C10 witness: runs for two SDRs in the same week have both read everything
\* and stand before their upserts, a report of the week before being stored
\* for one SDR only; the run of the other SDR has an empty comparison.
C10_Witness ==
    \E a \in Runs, b \in Runs :
        /\ runs[a].pc = "upsert" /\ runs[b].pc = "upsert"
        /\ runs[a].params.sdrId # runs[b].params.sdrId
        /\ runs[a].params.weekNumber = runs[b].params.weekNumber
        /\ runs[a].params.year = runs[b].params.year
        /\ DOMAIN runs[a].comparison = AvgKeys
        /\ DOMAIN runs[b].comparison = {}

\* The SDRs generateAll has warned about.
Warned == {client.warnings[k] : k \in 1..Len(client.warnings)}

ScoresOf(r, d) == [i \in 1..Len(runs[r].analyses) |-> runs[r].analyses[i].scores[d]]

RECURSIVE SumSeq(_)
SumSeq(q) == IF q = <<>> THEN 0 ELSE q[1] + SumSeq(Tail(q))

\* v is x rounded to an integer with halves going up, where x = num / den.
IsHalfUp(v, num, den) == 2 * den * v <= 2 * num + den /\ 2 * num + den < 2 * den * (v + 1)

\* C12: each dimension average of a rollup, in tenths, is the mean of that
\* dimension's scores (integers 1..10) over the analyses read, rounded half
\* up; opening scores 3, 5, 9 give 5.7.
C12_DimensionAverageHalfUp ==
    \A r \in Runs : HasRollup(r) =>
        \A d \in DimKeys :
            LET scores == ScoresOf(r, d)
            IN /\ \A i \in 1..Len(scores) : scores[i] \in 1..10
               /\ IsHalfUp(runs[r].avgScores[d], 10 * SumSeq(scores), Len(scores))
               /\ scores = <<3, 5, 9>> => runs[r].avgScores[d] = 57

\* C12 witness: a stored report over four calls whose opening scores 3, 5,
\* 9, 8 have the mean 6.25, stored as 6.3, the first three having given
\* 5.7 in an earlier rollup of the same pool.
C12_Witness ==
    \E r \in Runs :
        /\ runs[r].pc = "done"
        /\ ScoresOf(r, "opening") = <<3, 5, 9, 8>>
        /\ runs[r].avgScores["opening"] = 63
        /\ \E row \in StoredReports : row.avg_scores = runs[r].avgScores

\* The overall_score values of the analyses a run read, in query order.
OverallScores(r) == [i \in 1..Len(runs[r].analyses) |-> runs[r].analyses[i].overall_score]

\* The call of the first analysis, in query order, whose overall_score no
\* other analysis exceeds (sign 1) or undercuts (sign -1).
FirstExtreme(r, sign) ==
    LET a == runs[r].analyses
        i == CHOOSE i \in 1..Len(a) :
                /\ \A j \in 1..Len(a) : sign * a[j].overall_score <= sign * a[i].overall_score
                /\ \A j \in 1..(i - 1) : sign * a[j].overall_score < sign * a[i].overall_score
    IN a[i].call_id

\* C13: for every rollup, best_call_id is the call of the first analysis in
\* query order with the maximum overall_score and worst_call_id that of the
\* first with the minimum, neither of them null.
C13_BestWorstAreExtremes ==
    \A r \in Runs : HasRollup(r) =>
        /\ runs[r].bestCallId = FirstExtreme(r, 1)
        /\ runs[r].worstCallId = FirstExtreme(r, -1)
        /\ ReportRow(runs[r]).best_call_id # NULL
        /\ ReportRow(runs[r]).worst_call_id # NULL

\* C13 restricted to analyses whose overall_score lies in 1.0..10.0.
C13_ExtremesWithinScale ==
    \A r \in Runs :
        (HasRollup(r) /\ \A i \in 1..Len(runs[r].analyses) : OverallScores(r)[i] \in 10..100) =>
            /\ runs[r].bestCallId = FirstExtreme(r, 1)
            /\ runs[r].worstCallId = FirstExtreme(r, -1)
            /\ ReportRow(runs[r]).best_call_id # NULL
            /\ ReportRow(runs[r]).worst_call_id # NULL
            /\ Len(runs[r].analyses) = 1 => runs[r].bestCallId = runs[r].worstCallId

\* The calls that have the requested company, SDR, week and year and are
\* completed, by the columns of their rows.
Requested(params) ==
    {id \in DOMAIN calls :
        calls[id] = CallRow(params.companyId, params.sdrId, params.weekNumber, params.year,
                            "completed")}

\* C14: the calls a run selects are exactly those with the requested
\* company, SDR, week and year in status completed; the analyses it reads are
\* exactly the analyses of those calls; calls_analyzed is their number.
C14_OnlyCompletedOfKey ==
    /\ \A r \in Runs : runs[r].pc \in {"analyses", "prev", "coaching", "upsert", "done"} =>
          runs[r].callIds = Requested(runs[r].params)
    /\ \A r \in Runs : HasRollup(r) =>
          /\ \A i \in 1..Len(call_analyses) :
                call_analyses[i].call_id \in Requested(runs[r].params)
                    <=> \E j \in 1..Len(runs[r].analyses) :
                            runs[r].analyses[j] = call_analyses[i]
          /\ \A j \in 1..Len(runs[r].analyses) :
                LET c == calls[runs[r].analyses[j].call_id]
                IN /\ c.status = "completed"
                   /\ c.company_id = runs[r].params.companyId
                   /\ c.sdr_id = runs[r].params.sdrId
                   /\ c.week_number = runs[r].params.weekNumber
                   /\ c.year = runs[r].params.year
          /\ ReportRow(runs[r]).calls_analyzed =
                Cardinality({i \in 1..Len(call_analyses) :
                                call_analyses[i].call_id \in Requested(runs[r].params)})

\* C14 witness: a stored report over two calls while the table holds the
\* analyses of six other calls, among them a failed call and a call under
\* analysis of the same SDR and week.
C14_Witness ==
    \E r \in Runs :
        /\ runs[r].pc = "done"
        /\ Len(call_analyses) = 8
        /\ \E i \in 1..Len(call_analyses) :
              LET c == calls[call_analyses[i].call_id]
              IN c = CallRow("c1", "s1", 1, 2025, "failed")
        /\ \E i \in 1..Len(call_analyses) :
              LET c == calls[call_analyses[i].call_id]
              IN c = CallRow("c1", "s1", 1, 2025, "analyzing")
        /\ \E row \in ReportsAt("s1", 1, 2025) : row.calls_analyzed = 2

\* d comes before e in the canonical order of the dimensions.
Earlier(d, e) ==
    \E i \in 1..Len(DIMENSIONS), j \in 1..Len(DIMENSIONS) :
        i < j /\ DIMENSIONS[i] = d /\ DIMENSIONS[j] = e

\* C17: the summary of every report names as strongest a dimension, not
\* overall, whose average none exceeds and which comes before every other
\* dimension of the same average in the canonical order, and as needs-work
\* the like for the lowest average.
C17_StrongestAndNeedsWork ==
    \A r \in Runs : HasReport(r) =>
        LET avg == runs[r].avgScores
            top == runs[r].summary.strongest
            low == runs[r].summary.needsWork
        IN /\ top \in DimKeys /\ low \in DimKeys
           /\ runs[r].summary.strongestScore = avg[top]
           /\ runs[r].summary.needsWorkScore = avg[low]
           /\ \A d \in DimKeys : avg[d] <= avg[top] /\ avg[d] >= avg[low]
           /\ \A d \in DimKeys : avg[d] = avg[top] /\ d # top => Earlier(top, d)
           /\ \A d \in DimKeys : avg[d] = avg[low] /\ d # low => Earlier(low, d)

\* C17 witness: a stored report in which opening and discovery tie for the
\* highest average and value_prop and tone for the lowest; opening and
\* value_prop are named.
C17_Witness ==
    \E r \in Runs, row \in ReportsAt("s1", 1, 2025) :
        /\ runs[r].pc = "done"
        /\ row = ReportRow(runs[r])
        /\ row.avg_scores["opening"] = row.avg_scores["discovery"]
        /\ row.avg_scores["value_prop"] = row.avg_scores["tone"]
        /\ \A d \in DimKeys : row.avg_scores[d] <= row.avg_scores["opening"]
        /\ \A d \in DimKeys : row.avg_scores[d] >= row.avg_scores["tone"]
        /\ row.summary.strongest = "opening"
        /\ row.summary.needsWork = "value_prop"

\* What a report is made of before the summary is written, for a run at or
\* past its upsert and for a stored row.
SummaryInputs(row) == <<row.calls_analyzed, row.avg_scores, row.comparison_with_previous>>

\* C18: the summary of every report has the week-over-week clause exactly
\* when the comparison has an overall entry; its direction is up for a
\* delta above 0, down for one below 0 and flat for 0, and its points are
\* the size of the delta; reports equal in rollup and comparison have the
\* same summary.
C18_WeekOverWeekClause ==
    LET rows == StoredReports \cup {ReportRow(runs[r]) : r \in {x \in Runs : HasReport(x)}}
    IN /\ \A row \in rows :
             LET cmp == row.comparison_with_previous
             IN /\ row.summary.compared <=> Overall \in DOMAIN cmp
                /\ ~row.summary.compared => row.summary.arrow = "none"
                /\ row.summary.compared =>
                      /\ row.summary.arrow = "up" <=> cmp[Overall] > 0
                      /\ row.summary.arrow = "down" <=> cmp[Overall] < 0
                      /\ row.summary.arrow = "flat" <=> cmp[Overall] = 0
                      /\ row.summary.points = Abs(cmp[Overall])
       /\ \A a \in rows, b \in rows :
             SummaryInputs(a) = SummaryInputs(b) => a.summary = b.summary

\* C18 witness: a stored report whose overall equals that of the week
\* before while two of its dimensions moved; its clause is flat, 0 points.
C18_Witness ==
    \E r \in Runs, row \in ReportsAt("s1", 1, 2025) :
        /\ runs[r].pc = "done"
        /\ row = ReportRow(runs[r])
        /\ Overall \in DOMAIN row.comparison_with_previous
        /\ row.comparison_with_previous[Overall] = 0
        /\ \E d \in DimKeys : row.comparison_with_previous[d] > 0
        /\ \E d \in DimKeys : row.comparison_with_previous[d] < 0
        /\ row.summary.compared
        /\ row.summary.arrow = "flat"

\* The scenario of C18: overall 6.0 the week before, 6.4 now, narrated up.
C18_Scenario ==
    \E row \in ReportsAt("s1", 1, 2025), prior \in ReportsAt("s1", 52, 2024) :
        /\ prior.avg_scores[Overall] = 60
        /\ row.avg_scores[Overall] = 64
        /\ row.comparison_with_previous[Overall] = 4
        /\ row.summary.arrow = "up"

\* C15: a run whose store answered any of its five operations with an error
\* ends by throwing that error: it never goes on as if the read had been
\* empty, never ends as one without data, never stores a report.
C15_StoreErrorsPropagate ==
    \A r \in Runs : runs[r].faults # {} => runs[r].pc = "error"

\* C15 restricted to the read of calls and the upsert.
C15_CallsAndUpsertErrorsPropagate ==
    \A r \in Runs : runs[r].faults \cap {"calls", "upsert"} # {} => runs[r].pc = "error"

\* A run whose selected analyses include one that lacks a dimension score.
LacksScore(r) ==
    \E i \in 1..Len(runs[r].analyses) : DOMAIN runs[r].analyses[i].scores # DimKeys

Before(a, b) == a.year < b.year \/ (a.year = b.year /\ a.week_number < b.week_number)

\* C20: the answer of getWeeklyReports holds each stored report of the
\* company that passes the filters given, once, and no other, a report of a
\* later year before one of an earlier year and within a year a later week
\* before an earlier one; the answer of getSDRTrend(sdr, n) holds n reports
\* of the SDR, or all if there are fewer, none of them older than a report
\* of the SDR it leaves out, from the oldest to the newest.
C20_ReadsAreOrdered ==
    [][/\ \A params \in QueryParams :
             GetWeeklyReports(params) =>
                 LET q == client'.reports
                     match == {row \in StoredReports :
                                 /\ row.company_id = params.companyId
                                 /\ params.sdrId = "" \/ row.sdr_id = params.sdrId
                                 /\ params.weekNumber = 0 \/ row.week_number = params.weekNumber
                                 /\ params.year = 0 \/ row.year = params.year}
                 IN /\ {q[i] : i \in 1..Len(q)} = match
                    /\ Len(q) = Cardinality(match)
                    /\ \A i \in 1..Len(q), j \in 1..Len(q) : i < j => ~Before(q[i], q[j])
       /\ \A sdrId \in {"s1", "s2", "s3"}, weeks \in 1..MaxWeeks :
             GetSDRTrend(sdrId, weeks) =>
                 LET t == client'.trend
                     own == {row \in StoredReports : row.sdr_id = sdrId}
                     kept == {t[i] : i \in 1..Len(t)}
                 IN /\ kept \subseteq own
                    /\ Len(t) = Min(weeks, Cardinality(own))
                    /\ \A i \in 1..Len(t), j \in 1..Len(t) : i < j => Before(t[i], t[j])
                    /\ \A row \in own \ kept : \A i \in 1..Len(t) : Before(row, t[i])
      ]_vars

\* C20 witness: s1 has reports for weeks 51 and 52 of 2024 and 1 and 2 of
\* 2025; the trend of three weeks is 52 of 2024, 1 of 2025, 2 of 2025, and
\* the list of the company without further filters starts with week 2 of
\* 2025 and ends with week 51 of 2024.
C20_Witness ==
    /\ Cardinality({row \in StoredReports : row.sdr_id = "s1"}) = 4
    /\ Len(client.trend) = 3
    /\ <<client.trend[1].week_number, client.trend[1].year>> = <<52, 2024>>
    /\ <<client.trend[2].week_number, client.trend[2].year>> = <<1, 2025>>
    /\ <<client.trend[3].week_number, client.trend[3].year>> = <<2, 2025>>
    /\ Len(client.reports) = 5
    /\ <<client.reports[1].week_number, client.reports[1].year>> = <<2, 2025>>
    /\ <<client.reports[5].week_number, client.reports[5].year>> = <<51, 2024>>

\* Object.keys of the avgScores a run sends: the order of insertion.
KeysAsBuilt == DIMENSIONS \o <<Overall>>

\* The place of a key among the keys of a jsonb object as the store returns
\* it: shorter keys first, keys of equal length in byte order.
JsonbRank ==
    "tone" :> 1 @@ "count" :> 2 @@ "closing" :> 3 @@ "opening" :> 4 @@ "overall" :> 5 @@
    "discovery" :> 6 @@ "objection" :> 7 @@ "value_prop" :> 8

\* Object.keys of a stored jsonb mapping as a read returns it.
KeysAsStored(map) ==
    CHOOSE q \in [1..Cardinality(DOMAIN map) -> DOMAIN map] :
        \A i \in DOMAIN q, j \in DOMAIN q : i < j => JsonbRank[q[i]] < JsonbRank[q[j]]

C24_OnlyTheUpsertWrites ==
    [][\A r \in Runs :
          runs'[r] # runs[r] =>
              /\ calls' = calls
              /\ call_analyses' = call_analyses
              /\ coaching_items' = coaching_items
              /\ ~(runs[r].pc = "upsert" /\ runs'[r].pc = "done") =>
                    weekly_reports' = weekly_reports
              /\ (runs[r].pc = "upsert" /\ runs'[r].pc = "done") =>
                    /\ \A row \in StoredReports \cup BagToSet(weekly_reports') :
                          ~SameKey(row, RunKey(r)[1], RunKey(r)[2], RunKey(r)[3]) =>
                              CopiesIn(row, weekly_reports') = CopiesIn(row, weekly_reports)
                    /\ BagCardinality(weekly_reports') <= BagCardinality(weekly_reports) + 1
              /\ runs'[r].pc \in {"failed", "error"} =>
                    <<calls, call_analyses, coaching_items, weekly_reports>>'
                        = <<calls, call_analyses, coaching_items, weekly_reports>>
      ]_vars

\* C24 witness: one run has failed for want of data, one on a store error
\* at its upsert and the store is as it was at the start.
C24_Witness ==
    \E a \in Runs, b \in Runs :
        /\ runs[a].pc = "failed" /\ runs[a].faults = {}
        /\ runs[b].pc = "error" /\ "upsert" \in runs[b].faults
        /\ BagCardinality(weekly_reports) = 1
        /\ calls = SeedCalls
        /\ Len(call_analyses) = 4

\* The week of report a is the week before that of report b.
WeekBefore(a, b) ==
    [week |-> a.week_number, year |-> a.year] =
        prevWeek([weekNumber |-> b.week_number, year |-> b.year])

\* C27: when the run for a week was made after the run for the week before
\* had returned, the stored report of the week has, for each of the seven
\* keys, its average minus the stored average of the week before; a run
\* that finds no report of the week before when it reads gets the empty
\* comparison; and what a run stores is the comparison it computed then.
C27_ComparisonAsPersisted ==
    /\ [](\A a \in Runs, b \in Runs :
             (/\ runs[a].pc = "done" /\ runs[b].pc = "done"
              /\ runs[a].params.sdrId = runs[b].params.sdrId
              /\ WeekBefore(ReportRow(runs[a]), ReportRow(runs[b]))
              /\ runs[a].seq \in runs[b].after) =>
                 \A x \in ReportsAt(RunKey(a)[1], RunKey(a)[2], RunKey(a)[3]),
                    y \in ReportsAt(RunKey(b)[1], RunKey(b)[2], RunKey(b)[3]) :
                     /\ DOMAIN y.comparison_with_previous = AvgKeys
                     /\ \A k \in AvgKeys :
                           y.comparison_with_previous[k] = y.avg_scores[k] - x.avg_scores[k])
    /\ [][\A r \in Runs :
             /\ (runs[r].pc = "prev" /\ runs'[r].pc = "coaching"
                    /\ ReportsAt(runs[r].params.sdrId, runs[r].prevWeek.week,
                                 runs[r].prevWeek.year) = {}) =>
                   runs'[r].comparison = EmptyMap
             /\ (runs[r].pc = "upsert" /\ runs'[r].pc = "done") =>
                   \A row \in {x \in BagToSet(weekly_reports') :
                                  SameKey(x, RunKey(r)[1], RunKey(r)[2], RunKey(r)[3])} :
                       row.comparison_with_previous = runs[r].comparison
       ]_vars

\* C27 witness: s1's report of week 52 of 2024 was generated, then that of
\* week 1 of 2025, whose comparison is the difference of the two stored
\* reports and is not 0 overall.
C27_Witness ==
    \E a \in Runs, b \in Runs :
        /\ runs[a].pc = "done" /\ runs[b].pc = "done"
        /\ RunKey(a) = <<"s1", 52, 2024>> /\ RunKey(b) = <<"s1", 1, 2025>>
        /\ runs[a].seq \in runs[b].after
        /\ \E x \in ReportsAt("s1", 52, 2024), y \in ReportsAt("s1", 1, 2025) :
              /\ y.comparison_with_previous[Overall] = y.avg_scores[Overall] - x.avg_scores[Overall]
              /\ y.comparison_with_previous[Overall] # 0

\* Reports generated against the order of the weeks: that of week 1 of 2025
\* has no comparison though the report of week 52 of 2024 is stored now.
C27_OutOfOrder ==
    \E x \in ReportsAt("s1", 52, 2024), y \in ReportsAt("s1", 1, 2025) :
        DOMAIN y.comparison_with_previous = {}

Day(y, m, d) == [y |-> y, m |-> m, d |-> d]

DaysInMonth(y, m) ==
    IF m = 2 THEN (IF (y % 4 = 0 /\ y % 100 # 0) \/ y % 400 = 0 THEN 29 ELSE 28)
    ELSE IF m \in {4, 6, 9, 11} THEN 30 ELSE 31

RECURSIVE DaysBeforeMonth(_, _)
DaysBeforeMonth(y, m) ==
    IF m = 1 THEN 0 ELSE DaysBeforeMonth(y, m - 1) + DaysInMonth(y, m - 1)

\* Days from 0001-01-01 up to, not including, 1 January of year y.
DaysBeforeYear(y) ==
    365 * (y - 1) + ((y - 1) \div 4) - ((y - 1) \div 100) + ((y - 1) \div 400)

\* Date.UTC(year, month, day) counted in days; day 1 is Monday 0001-01-01.
UtcDay(date) == DaysBeforeYear(date.y) + DaysBeforeMonth(date.y, date.m) + date.d

\* d.getUTCDay() || 7: Monday 1 ... Sunday 7.
DayNum(n) == ((n - 1) % 7) + 1

\* d.getUTCFullYear() of a day count.
UtcFullYear(n) ==
    CHOOSE y \in 1..9999 : DaysBeforeYear(y) < n /\ n <= DaysBeforeYear(y + 1)

\* getWeekNumber(date): move to the Thursday of the date's week, count the
\* days from 1 January of the Thursday's year, Math.ceil((days + 1) / 7).
getWeekNumber(date) ==
    LET n == UtcDay(date)
        d == n + 4 - DayNum(n)
        yearStart == DaysBeforeYear(UtcFullYear(d)) + 1
    IN  ((d - yearStart) + 1 + 6) \div 7

\* The row uploadCall ('analyzing') and uploadAudioCall ('transcribing')
\* insert into calls; year is date.getFullYear().
UploadRow(c, s, date, st) ==
    [company_id |-> c, sdr_id |-> s, week_number |-> getWeekNumber(date),
     year |-> date.y, status |-> st, call_date |-> date]

\* The signed-in users: their company and role in profiles.
Profiles ==
    "m1" :> [company_id |-> "c1", role |-> "manager"] @@
    "m2" :> [company_id |-> "c2", role |-> "manager"] @@
    "e1" :> [company_id |-> "c1", role |-> "sdr"]

\* A request without a valid session.
Anonymous == "anon"

\* Ids the store gives to uploaded calls.
UploadIds == {"u1", "u2"}

\* The body processCallAsync sends, and where the request is: "invoking"
\* (sent by the client, not yet at the function), then the steps of
\* process-call, then "returned" with the HTTP status, or "lost".
RequestOf(fn, caller, callId, companyId, sdrId, audio, pc) ==
    [fn |-> fn, caller |-> caller, callId |-> callId, companyId |-> companyId,
     sdrId |-> sdrId, audio |-> audio, pc |-> pc, http |-> 0]

\* Upload page, uploadAndQueue for one item: uploadCall or uploadAudioCall
\* inserts the call (the insert policy of calls admits managers and admins
\* of the company), then processCallAsync sends the request and does not
\* wait for it.
uploadAndQueue(id, user, sdrId, date, audio) ==
    /\ id \in UploadIds
    /\ id \notin DOMAIN calls
    /\ id \notin DOMAIN requests
    /\ user \in DOMAIN Profiles
    /\ Profiles[user].role \in {"admin", "manager"}
    /\ calls' = calls @@
          (id :> UploadRow(Profiles[user].company_id, sdrId, date,
                           IF audio THEN "transcribing" ELSE "analyzing"))
    /\ requests' = requests @@
          (id :> RequestOf("process-call", user, id, Profiles[user].company_id,
                           sdrId, audio, "invoking"))
    /\ UNCHANGED <<call_analyses, coaching_items, weekly_reports, runs, processing,
                   started, deleted, client>>

\* Call dates around the turn of the years 2020/21, 2023/24 and 2024/25.
DatePool ==
    {Day(2020, 12, 31), Day(2021, 1, 1), Day(2021, 1, 3), Day(2021, 1, 4),
     Day(2024, 1, 1), Day(2024, 1, 7), Day(2024, 6, 12), Day(2024, 6, 16),
     Day(2024, 12, 28), Day(2024, 12, 29), Day(2024, 12, 30), Day(2024, 12, 31),
     Day(2025, 1, 1), Day(2025, 1, 5), Day(2025, 1, 6)}

\* Uploads into an empty calls table.
DateInit ==
    /\ calls = <<>>
    /\ call_analyses = <<>>
    /\ coaching_items = {}
    /\ weekly_reports = EmptyBag
    /\ runs = [r \in Runs |-> IdleRun]
    /\ processing = [id \in CallIds |-> "none"]
    /\ started = 0
    /\ deleted = 0
    /\ client = ClientOf(<<>>, 1, 2025)
    /\ requests = NoRequests

\* Manager m1 uploads transcripts and recordings of s1.
DateNext ==
    \E id \in UploadIds, date \in DatePool, audio \in BOOLEAN :
        uploadAndQueue(id, "m1", "s1", date, audio)

DateSpec == DateInit /\ [][DateNext]_vars

\* Two dates lie in the same Monday-to-Sunday week.
SameWeek(a, b) == (UtcDay(a) - 1) \div 7 = (UtcDay(b) - 1) \div 7

\* C21: two uploaded calls carry the same (week_number, year) exactly when
\* their call dates fall in the same Monday-to-Sunday week, also where the
\* week spans the turn of the year.
C21_PairIdentifiesWeek ==
    \A a \in DOMAIN calls : \A b \in DOMAIN calls :
        ("call_date" \in DOMAIN calls[a] /\ "call_date" \in DOMAIN calls[b]) =>
            ((calls[a].week_number = calls[b].week_number
                  /\ calls[a].year = calls[b].year)
             <=> SameWeek(calls[a].call_date, calls[b].call_date))

(***************************************************************************)
(* The processing pipeline: the Upload page, the edge function             *)
(* process-call from the request to its response, one step per store      *)
(* round trip or outside call, and delete-calls with its caller.          *)
(***************************************************************************)
\* Ids of the requests made to the edge functions besides those of the
\* Upload page (which carry the id of the uploaded call).
DirectIds == {"x1"}
DeleteIds == {"d1"}

\* .update({ status }).eq('id', callId): no row, no change; the result of
\* the update is not looked at.
SetStatus(id, st) ==
    IF id \in DOMAIN calls THEN [calls EXCEPT ![id].status = st] ELSE calls

\* supabase.functions.invoke('process-call', { body }) by any client with
\* any body: the caller, the call, the company and the SDR it names.
invoke(q, caller, callId, companyId, sdrId) ==
    /\ q \in DirectIds
    /\ q \notin DOMAIN requests
    /\ requests' = requests @@
          (q :> RequestOf("process-call", caller, callId, companyId, sdrId,
                          FALSE, "invoking"))
    /\ UNCHANGED <<calls, call_analyses, coaching_items, weekly_reports, runs,
                   processing, started, deleted, client>>

\* The request never reaches the function: processCallAsync logs the error.
InvokeFails(q) ==
    /\ q \in DOMAIN requests
    /\ requests[q].pc = "invoking"
    /\ requests' = [requests EXCEPT ![q].pc = "lost"]
    /\ UNCHANGED <<calls, call_analyses, coaching_items, weekly_reports, runs,
                   processing, started, deleted, client>>

\* Lines 66-121: 401 without a valid session, 403 unless the caller's
\* profile is admin or manager, 400 without callId, 403 unless the
\* companyId of the body is the caller's company.
Authorize(q) ==
    /\ q \in DOMAIN requests
    /\ requests[q].pc = "invoking"
    /\ LET rq == requests[q]
           http == IF rq.caller \notin DOMAIN Profiles THEN 401
                   ELSE IF Profiles[rq.caller].role \notin {"admin", "manager"} THEN 403
                   ELSE IF rq.callId = "" THEN 400
                   ELSE IF rq.companyId # Profiles[rq.caller].company_id THEN 403
                   ELSE 0
       IN  requests' = [requests EXCEPT
                           ![q].pc = IF http = 0 THEN "begin" ELSE "returned",
                           ![q].http = http]
    /\ UNCHANGED <<calls, call_analyses, coaching_items, weekly_reports, runs,
                   processing, started, deleted, client>>

\* Lines 126-130 for a recording, lines 212-215 for a transcript.
Begin(q) ==
    /\ q \in DOMAIN requests
    /\ requests[q].pc = "begin"
    /\ calls' = SetStatus(requests[q].callId,
                          IF requests[q].audio THEN "transcribing" ELSE "analyzing")
    /\ requests' = [requests EXCEPT
                       ![q].pc = IF requests[q].audio THEN "transcribe" ELSE "llm"]
    /\ UNCHANGED <<call_analyses, coaching_items, weekly_reports, runs,
                   processing, started, deleted, client>>

\* Lines 132-209: download and Deepgram; any failure throws, success saves
\* the transcript with status 'analyzing'.
Transcribe(q, ok) ==
    /\ q \in DOMAIN requests
    /\ requests[q].pc = "transcribe"
    /\ calls' = IF ok THEN SetStatus(requests[q].callId, "analyzing") ELSE calls
    /\ requests' = [requests EXCEPT ![q].pc = IF ok THEN "llm" ELSE "catch"]
    /\ UNCHANGED <<call_analyses, coaching_items, weekly_reports, runs,
                   processing, started, deleted, client>>

\* Lines 219-254: the LLM request and JSON.parse of its answer; any failure
\* throws.
Analyze(q, ok) ==
    /\ q \in DOMAIN requests
    /\ requests[q].pc = "llm"
    /\ requests' = [requests EXCEPT ![q].pc = IF ok THEN "insert" ELSE "catch"]
    /\ UNCHANGED <<calls, call_analyses, coaching_items, weekly_reports, runs,
                   processing, started, deleted, client>>

\* The insert into call_analyses is accepted: the call exists, it has no
\* analysis yet (call_id is unique) and the row has its scores (not null).
Accepted(callId, complete) ==
    /\ complete
    /\ callId \in DOMAIN calls
    /\ \A i \in 1..Len(call_analyses) : call_analyses[i].call_id # callId

\* The insert of the analysis with its error not looked at: the request goes
\* on to the coaching items either way.
InsertAnalysisUnchecked(q, complete) ==
    /\ q \in DOMAIN requests
    /\ requests[q].pc = "insert"
    /\ LET id == requests[q].callId
       IN  call_analyses' = IF Accepted(id, complete)
                            THEN Append(call_analyses, AnalysisRow(id, PendingResult(id)))
                            ELSE call_analyses
    /\ requests' = [requests EXCEPT ![q].pc = "coaching"]
    /\ UNCHANGED <<calls, coaching_items, weekly_reports, runs,
                   processing, started, deleted, client>>

\* Lines 257-289: insert the analysis; an error of the insert throws.
\* complete: the answer has every score the row needs.
InsertAnalysis(q, complete) ==
    /\ q \in DOMAIN requests
    /\ requests[q].pc = "insert"
    /\ LET id == requests[q].callId
       IN  IF Accepted(id, complete)
           THEN /\ call_analyses' = Append(call_analyses, AnalysisRow(id, PendingResult(id)))
                /\ requests' = [requests EXCEPT ![q].pc = "coaching"]
           ELSE /\ call_analyses' = call_analyses
                /\ requests' = [requests EXCEPT ![q].pc = "catch"]
    /\ UNCHANGED <<calls, coaching_items, weekly_reports, runs,
                   processing, started, deleted, client>>

\* Lines 292-301: one item per entry of analysis.dimensions, inserted in
\* one statement whose result is not looked at.  ok: the store accepts the
\* rows (every action_item present, the analysis still there).
InsertCoaching(q, ok) ==
    /\ q \in DOMAIN requests
    /\ requests[q].pc = "coaching"
    /\ LET id == requests[q].callId
           there == \E i \in 1..Len(call_analyses) : call_analyses[i].call_id = id
       IN  coaching_items' =
               IF ok /\ there
               THEN coaching_items \cup
                    CoachingRows(id, requests[q].sdrId, requests[q].companyId,
                                 PendingResult(id), "open")
               ELSE coaching_items
    /\ requests' = [requests EXCEPT ![q].pc = "complete"]
    /\ UNCHANGED <<calls, call_analyses, weekly_reports, runs,
                   processing, started, deleted, client>>

\* Lines 305-328: status 'completed', response 200.
Complete(q) ==
    /\ q \in DOMAIN requests
    /\ requests[q].pc = "complete"
    /\ calls' = SetStatus(requests[q].callId, "completed")
    /\ requests' = [requests EXCEPT ![q].pc = "returned", ![q].http = 200]
    /\ UNCHANGED <<call_analyses, coaching_items, weekly_reports, runs,
                   processing, started, deleted, client>>

\* Lines 329-344: the catch block: status 'failed', response 500.
Catch(q) ==
    /\ q \in DOMAIN requests
    /\ requests[q].pc = "catch"
    /\ calls' = SetStatus(requests[q].callId, "failed")
    /\ requests' = [requests EXCEPT ![q].pc = "returned", ![q].http = 500]
    /\ UNCHANGED <<call_analyses, coaching_items, weekly_reports, runs,
                   processing, started, deleted, client>>

\* delete-calls with its caller: 401 without a valid session; otherwise the
\* rows with the given ids are deleted with the service role, whatever the
\* caller's role and company.
deleteCallsAs(q, caller, ids) ==
    /\ q \in DeleteIds
    /\ q \notin DOMAIN requests
    /\ ids # {}
    /\ ids \subseteq DOMAIN calls
    /\ requests' = requests @@
          (q :> [RequestOf("delete-calls", caller, "", "", "", FALSE, "returned")
                    EXCEPT !.http = IF caller \in DOMAIN Profiles THEN 200 ELSE 401])
    /\ IF caller \in DOMAIN Profiles
       THEN /\ calls' = [c \in DOMAIN calls \ ids |-> calls[c]]
            /\ call_analyses' = SelectSeq(call_analyses, LAMBDA a : a.call_id \notin ids)
            /\ coaching_items' = {c \in coaching_items : c.call_id \notin ids}
            /\ weekly_reports' = BagOfAll(LAMBDA row : SetNull(row, ids), weekly_reports)
       ELSE UNCHANGED <<calls, call_analyses, coaching_items, weekly_reports>>
    /\ UNCHANGED <<runs, processing, started, deleted, client>>

\* One completed call of company c2 with its analysis and coaching items;
\* company c1 has not uploaded yet.
PipelineInit ==
    /\ calls = ("k5" :> SeedCalls["k5"])
    /\ call_analyses = <<AnalysisRow("k5", ResultC)>>
    /\ coaching_items = CoachingRows("k5", "s1", "c2", ResultC, "open")
    /\ weekly_reports = EmptyBag
    /\ runs = [r \in Runs |-> IdleRun]
    /\ processing = [id \in CallIds |-> "none"]
    /\ started = 0
    /\ deleted = 0
    /\ client = ClientOf(<<>>, 1, 2025)
    /\ requests = NoRequests

Callers == DOMAIN Profiles \cup {Anonymous}

\* The upload is dated 2025-01-01.
PipelineNext ==
    \/ \E audio \in BOOLEAN : uploadAndQueue("u1", "m1", "s1", Day(2025, 1, 1), audio)
    \/ \E q \in DirectIds, caller \in Callers, callId \in {"u1", "k5", ""},
          companyId \in {"c1", "c2"} : invoke(q, caller, callId, companyId, "s1")
    \/ \E q \in DOMAIN requests : InvokeFails(q)
    \/ \E q \in DOMAIN requests : Authorize(q)
    \/ \E q \in DOMAIN requests : Begin(q)
    \/ \E q \in DOMAIN requests, ok \in BOOLEAN : Transcribe(q, ok)
    \/ \E q \in DOMAIN requests, ok \in BOOLEAN : Analyze(q, ok)
    \/ \E q \in DOMAIN requests, complete \in BOOLEAN : InsertAnalysis(q, complete)
    \/ \E q \in DOMAIN requests, ok \in BOOLEAN : InsertCoaching(q, ok)
    \/ \E q \in DOMAIN requests : Complete(q)
    \/ \E q \in DOMAIN requests : Catch(q)
    \/ \E q \in DeleteIds, caller \in Callers, ids \in SUBSET DOMAIN calls :
          deleteCallsAs(q, caller, ids)

PipelineSpec == PipelineInit /\ [][PipelineNext]_vars

(***************************************************************************)
(* The pipeline's claims.                                                  *)
(***************************************************************************)
\* C22: every analysis has exactly six coaching items, one for each
\* canonical dimension, once the request that inserted it is past its
\* coaching insert; no analysis is left with fewer or more.
C22_SixItemsPerAnalysis ==
    \A i \in 1..Len(call_analyses) :
        LET id == call_analyses[i].call_id
            items == {c \in coaching_items : c.call_id = id}
            betweenInserts ==
                \E q \in DOMAIN requests :
                    requests[q].callId = id /\ requests[q].pc = "coaching"
        IN  ~betweenInserts =>
                /\ Cardinality(items) = 6
                /\ {c.dimension : c \in items} = {DIMENSIONS[k] : k \in 1..6}

\* The requests that took a step.
Acting == {q \in DOMAIN requests' : q \notin DOMAIN requests \/ requests'[q] # requests[q]}

\* Call id, its analysis or its coaching items are changed or deleted by
\* the step.
Touched(id) ==
    \/ id \notin DOMAIN calls'
    \/ calls'[id] # calls[id]
    \/ SelectSeq(call_analyses', LAMBDA a : a.call_id = id)
          # SelectSeq(call_analyses, LAMBDA a : a.call_id = id)
    \/ {c \in coaching_items' : c.call_id = id} # {c \in coaching_items : c.call_id = id}

\* The request q was made by a signed-in user of company c.
CallerOf(q, c) ==
    /\ requests'[q].caller \in DOMAIN Profiles
    /\ Profiles[requests'[q].caller].company_id = c

\* C25: a step of an edge-function request changes or deletes a call, its
\* analysis or its coaching items only if the call's stored company_id is
\* the company of the request's authenticated caller.
C25_TenantIsolation ==
    [][\A id \in DOMAIN calls :
          Touched(id) => \A q \in Acting : CallerOf(q, calls[id].company_id)]_vars

\* C25, process-call alone: a step of a process-call request changes a call
\* only if the call's stored company_id is the caller's company.
C25_ProcessCallIsolation ==
    [][\A id \in DOMAIN calls :
          Touched(id) =>
              \A q \in Acting : requests'[q].fn = "process-call"
                                  => CallerOf(q, calls[id].company_id)]_vars

\* C26: the status of a call stays or advances transcribing -> analyzing ->
\* completed, or goes to failed from transcribing or analyzing; a completed
\* call keeps its status.
C26_StatusOnlyAdvances ==
    [][\A id \in DOMAIN calls \cap DOMAIN calls' :
          LET a == calls[id].status
              b == calls'[id].status
          IN  b # a => \/ a = "transcribing" /\ b \in {"analyzing", "failed"}
                       \/ a = "analyzing" /\ b \in {"completed", "failed"}]_vars

\* C28: a call with status completed has exactly one call_analyses row.
C28_CompletedHasOneAnalysis ==
    \A id \in DOMAIN calls :
        calls[id].status = "completed" =>
            Cardinality({i \in 1..Len(call_analyses) : call_analyses[i].call_id = id}) = 1

\* The uploaded call went through the pipeline to completed.
C28_Witness ==
    /\ "u1" \in DOMAIN calls
    /\ calls["u1"].status = "completed"
    /\ requests["u1"].http = 200
    /\ Cardinality({i \in 1..Len(call_analyses) : call_analyses[i].call_id = "u1"}) = 1

\* C29: once every process-call request that names a call has ended, with a
\* response or with the client's invoke failure, the call's status is
\* completed or failed.
C29_EndsTerminal ==
    \A id \in DOMAIN calls :
        LET naming == {q \in DOMAIN requests :
                          requests[q].fn = "process-call" /\ requests[q].callId = id}
        IN  (naming # {} /\ \A q \in naming : requests[q].pc \in {"returned", "lost"})
                => calls[id].status \in {"completed", "failed"}

==============================================================================
